---- MODULE Spec2Model ----
(***************************************************************************)
(* Bot Arena paper-trading engine (api/bots.py): title normalisation, the   *)
(* Kelly position sizer and the per-cycle engine run_bot_engine.            *)
(*                                                                          *)
(* Units.  Python floats are modelled by exact arithmetic:                  *)
(*   - money is an integer number of cents where the code holds values      *)
(*     rounded to 2 decimals, and an exact rational [n, d] of dollars       *)
(*     inside a computation;                                                *)
(*   - probabilities given to kelly_size are rationals;                     *)
(*   - yes_pct prices are rationals of percentage points.                   *)
(* Where the floating-point rounding error of the code decides an outcome   *)
(* that exact arithmetic leaves open, the model takes every outcome: the    *)
(* sign of a Kelly fraction whose exact value is 0, and the direction in    *)
(* which round(x, 2) rounds an exact half cent (FloatOutcomes).             *)
(* Strings that the code inspects character by character (market titles)    *)
(* are sequences of one-character strings.                                  *)
(***************************************************************************)
EXTENDS Integers, Sequences, FiniteSets, TLC

VARIABLES
    BOTS,        \* the configured agents (api/bots.py BOTS), fixed after Init
    db_state,    \* persisted bots_state.json: Nothing or Some([bot id -> bot_state])
    db_trades,   \* persisted bots_trades.json: the global trade log
    now,         \* the wall clock, read once per invocation of run_bot_engine
    result,      \* what the last run_bot_engine returned (Nothing before)
    cyc,         \* per-bot locals of the last run_bot_engine invocation
    arg,         \* the argument of a pure-function call under test
    ret,         \* its return value (Nothing before the call)
    invocations  \* the invocations of run_bot_engine that run step by step:
                 \* per request its position in the code and its locals

vars == <<BOTS, db_state, db_trades, now, result, cyc, arg, ret, invocations>>

\* An optional value (a Python None, a missing file, a call not yet made) is a
\* sequence of length 0; a present value x is <<x>>.
Nothing == <<>>
Some(x) == <<x>>
The(o) == o[1]

None == "None"      \* the direction kelly_size returns for "no trade"

(***************************************************************************)
(* Sequence helpers                                                         *)
(***************************************************************************)
\* s[-n:] of Python for n > 0
LastN(s, n) == IF Len(s) <= n THEN s ELSE SubSeq(s, Len(s) - n + 1, Len(s))

\* s[:n] of Python for n >= 0
FirstN(s, n) == IF Len(s) <= n THEN s ELSE SubSeq(s, 1, n)

RECURSIVE Concat(_)
Concat(ss) == IF ss = <<>> THEN <<>> ELSE Head(ss) \o Concat(Tail(ss))

Min2(a, b) == IF a <= b THEN a ELSE b
Max2(a, b) == IF a >= b THEN a ELSE b
Abs(a) == IF a < 0 THEN -a ELSE a

(***************************************************************************)
(* Exact rationals [n |-> numerator, d |-> denominator > 0], always reduced *)
(***************************************************************************)
RECURSIVE GCD(_, _)
GCD(a, b) == IF b = 0 THEN a ELSE GCD(b, a % b)

RNorm(n, d) ==
    LET s == IF d < 0 THEN -1 ELSE 1
        g == GCD(Abs(n), Abs(d))
    IN  IF n = 0 THEN [n |-> 0, d |-> 1]
        ELSE [n |-> (s * n) \div g, d |-> (s * d) \div g]

R(n, d) == RNorm(n, d)
RInt(i) == [n |-> i, d |-> 1]

\* cross-cancelling product, to keep intermediate values small
RMul(x, y) ==
    LET g1 == GCD(Abs(x.n), y.d)
        g2 == GCD(Abs(y.n), x.d)
        a == IF x.n = 0 THEN 0 ELSE x.n \div g1
        b == IF y.n = 0 THEN 0 ELSE y.n \div g2
        c == IF y.n = 0 THEN 1 ELSE x.d \div g2
        e == IF x.n = 0 THEN 1 ELSE y.d \div g1
    IN  RNorm(a * b, c * e)

RDiv(x, y) == RMul(x, IF y.n < 0 THEN [n |-> -y.d, d |-> -y.n] ELSE [n |-> y.d, d |-> y.n])

RAdd(x, y) ==
    LET g == GCD(x.d, y.d)
    IN  RNorm(x.n * (y.d \div g) + y.n * (x.d \div g), (x.d \div g) * y.d)

RNeg(x) == [n |-> -x.n, d |-> x.d]
RSub(x, y) == RAdd(x, RNeg(y))

RSign(x) == IF x.n > 0 THEN 1 ELSE IF x.n < 0 THEN -1 ELSE 0
RLt(x, y) == RSign(RSub(x, y)) < 0
RLe(x, y) == RSign(RSub(x, y)) <= 0
RGt(x, y) == RLt(y, x)
RGe(x, y) == RLe(y, x)
RMin(x, y) == IF RLe(x, y) THEN x ELSE y
RMax(x, y) == IF RGe(x, y) THEN x ELSE y
RAbs(x) == IF x.n < 0 THEN RNeg(x) ELSE x

\* floor of a rational
RFloor(x) == x.n \div x.d

\* round(x, 2) of a dollar amount, as an integer number of cents; an exact half
\* cent goes the way `tie` says ("up", "down", or "even" for round-half-even)
Round2T(x, tie) ==
    LET q == x.n \div x.d                      \* whole dollars (floor)
        r == x.n % x.d
        r1 == (r * 10) % x.d                   \* after the first decimal
        r2 == (r1 * 10) % x.d                  \* r2 / x.d is the fraction of a cent
        f == q * 100 + ((r * 10) \div x.d) * 10 + (r1 * 10) \div x.d   \* whole cents
    IN  IF 2 * r2 < x.d THEN f
        ELSE IF 2 * r2 > x.d THEN f + 1
        ELSE IF tie = "up" THEN f + 1
        ELSE IF tie = "down" THEN f
        ELSE IF f % 2 = 0 THEN f ELSE f + 1

\* TRUE when x is an exact half cent
IsHalfCent(x) == Round2T(x, "up") # Round2T(x, "down")

\* round(x, 2) of a value that is no exact half cent
Round2(x) == Round2T(x, "even")

\* a number of cents as a rational of dollars
Cents(c) == R(c, 100)

(***************************************************************************)
(* Character-level strings                                                  *)
(***************************************************************************)
UpperChars == <<"A","B","C","D","E","F","G","H","I","J","K","L","M",
                "N","O","P","Q","R","S","T","U","V","W","X","Y","Z">>
LowerChars == <<"a","b","c","d","e","f","g","h","i","j","k","l","m",
                "n","o","p","q","r","s","t","u","v","w","x","y","z">>
DigitChars == {"0","1","2","3","4","5","6","7","8","9"}
Whitespace == {" ", "\t", "\n", "\r"}

LowerChar(c) ==
    IF \E i \in 1..26 : UpperChars[i] = c
    THEN LowerChars[CHOOSE i \in 1..26 : UpperChars[i] = c]
    ELSE c

\* str.lower()
StrLower(s) == [i \in 1..Len(s) |-> LowerChar(s[i])]

RECURSIVE LStrip(_)
LStrip(s) == IF s # <<>> /\ Head(s) \in Whitespace THEN LStrip(Tail(s)) ELSE s

RECURSIVE RStrip(_)
RStrip(s) ==
    IF s # <<>> /\ s[Len(s)] \in Whitespace THEN RStrip(SubSeq(s, 1, Len(s) - 1)) ELSE s

\* str.strip()
StrStrip(s) == RStrip(LStrip(s))

\* re.sub(r'[^a-z0-9\s]', '', t)
StripPunct(s) ==
    SelectSeq(s, LAMBDA c : \/ \E i \in 1..26 : LowerChars[i] = c
                            \/ c \in DigitChars
                            \/ c \in Whitespace)

\* re.sub(r'\s+', ' ', t)
RECURSIVE CollapseSpaces(_)
CollapseSpaces(s) ==
    IF s = <<>> THEN <<>>
    ELSE IF Head(s) \in Whitespace
         THEN <<" ">> \o CollapseSpaces(LStrip(s))
         ELSE <<Head(s)>> \o CollapseSpaces(Tail(s))

\* str.replace(pat, ""): non-overlapping occurrences, left to right
RECURSIVE RemoveAll(_, _)
RemoveAll(s, pat) ==
    IF Len(s) < Len(pat) THEN s
    ELSE IF SubSeq(s, 1, Len(pat)) = pat
         THEN RemoveAll(SubSeq(s, Len(pat) + 1, Len(s)), pat)
         ELSE <<Head(s)>> \o RemoveAll(Tail(s), pat)

NoisePhrases == <<
    <<"w","i","l","l"," ">>,
    <<"w","h","a","t"," ">>,
    <<"w","h","o"," ">>,
    <<"w","h","i","c","h"," ">>,
    <<"w","h","e","n"," ">>,
    <<"h","o","w"," ">>,
    <<"t","h","e"," ">>,
    <<"b","y"," ","e","n","d"," ","o","f"," ">>,
    <<"b","e","f","o","r","e"," ">>,
    <<"i","n"," ","2","0","2","6">>,
    <<"i","n"," ","2","0","2","5">>,
    <<"i","n"," ","2","0","2","7">> >>

\* the loop "for noise in [...]: t = t.replace(noise, '')"
RECURSIVE RemoveNoise(_, _)
RemoveNoise(s, i) ==
    IF i > Len(NoisePhrases) THEN s
    ELSE RemoveNoise(RemoveAll(s, NoisePhrases[i]), i + 1)

normalize_title(t) ==
    StrStrip(RemoveNoise(CollapseSpaces(StripPunct(StrStrip(StrLower(t)))), 1))

(***************************************************************************)
(* The market titles of the engine model                                    *)
(***************************************************************************)
T_FedQ == <<"F","e","d","?">>
T_fed == <<"f","e","d">>
T_GDP == <<"G","D","P">>
T_FED == <<" ","F","E","D">>
Titles == {T_FedQ, T_fed, T_GDP, T_FED}

(***************************************************************************)
(* Trading constants                                                        *)
(***************************************************************************)
MIN_TRADEABLE_PRICE == 5
MAX_TRADEABLE_PRICE == 95
MAX_BET_PER_TRADE == 800
SLIPPAGE_PCT == 2
FEES_PCT == 1

BUY_YES == "BUY_YES"
BUY_NO == "BUY_NO"
ARB == "ARB"

(***************************************************************************)
(* Kelly criterion: kelly_size(estimated_prob, market_price, bankroll,      *)
(* kelly_fraction).  All four arguments are rationals (bankroll in          *)
(* dollars); the result is [bet |-> cents, dir |-> direction or None].      *)
(* fp is the outcome of the floating-point rounding: e_yes and e_no are the *)
(* signs of the computed f_yes and f_no when their exact value is 0, tie is *)
(* the direction in which an exact half cent is rounded.                    *)
(***************************************************************************)
FloatOutcomes == [e_yes : {-1, 0, 1}, e_no : {-1, 0, 1}, tie : {"up", "down"}]

\* the sign of a computed fraction with exact value f and rounding error sign e
FSign(f, e) == IF f.n # 0 THEN RSign(f) ELSE e

\* computed f1 >= computed f2
FGe(f1, e1, f2, e2) == IF f1 = f2 THEN e1 >= e2 ELSE RGe(f1, f2)

\* the guard of the first line: a probability within 0.01 of 0 or 1
KellyGuard(estimated_prob, market_price) ==
    \/ RLe(estimated_prob, R(1, 100)) \/ RGe(estimated_prob, R(99, 100))
    \/ RLe(market_price, R(1, 100))   \/ RGe(market_price, R(99, 100))

\* b = (1 / price) - 1 ; f = (b * prob - (1 - prob)) / b
FullKelly(prob, price) ==
    LET b == RSub(RDiv(RInt(1), price), RInt(1))
    IN  RDiv(RSub(RMul(b, prob), RSub(RInt(1), prob)), b)

KellyDirection_Swapped(f_yes, f_no, fp) ==
    IF FSign(f_no, fp.e_no) > 0 /\ FGe(f_no, fp.e_no, f_yes, fp.e_yes) THEN BUY_YES
    ELSE IF FSign(f_yes, fp.e_yes) > 0 THEN BUY_NO
    ELSE None

\* if f_yes > 0 and f_yes >= f_no: ... elif f_no > 0: ... else no trade
KellyDirection(f_yes, f_no, fp) ==
    IF FSign(f_yes, fp.e_yes) > 0 /\ FGe(f_yes, fp.e_yes, f_no, fp.e_no) THEN BUY_YES
    ELSE IF FSign(f_no, fp.e_no) > 0 THEN BUY_NO
    ELSE None

\* bet = min(bet, bankroll * 0.15, MAX_BET_PER_TRADE)
ClampBet(bet, bankroll) ==
    RMin(bet, RMin(RMul(bankroll, R(15, 100)), RInt(MAX_BET_PER_TRADE)))

NetOfFees_NoFee(bet) == bet

\* bet = bet * (1 - FEES_PCT / 100)
NetOfFees(bet) == RMul(bet, RSub(RInt(1), R(FEES_PCT, 100)))

kelly_size(estimated_prob, market_price, bankroll, kelly_fraction, fp) ==
    IF KellyGuard(estimated_prob, market_price) THEN [bet |-> 0, dir |-> None]
    ELSE
      LET f_yes == FullKelly(estimated_prob, market_price)
          no_price == RSub(RInt(1), market_price)
          no_prob == RSub(RInt(1), estimated_prob)
          f_no == FullKelly(no_prob, no_price)
          dir == KellyDirection(f_yes, f_no, fp)
          f == IF dir = BUY_YES THEN f_yes ELSE f_no
          bet == NetOfFees(ClampBet(RMul(RMul(bankroll, f), kelly_fraction), bankroll))
      IN  IF dir = None THEN [bet |-> 0, dir |-> None]
          ELSE [bet |-> Round2T(bet, fp.tie), dir |-> dir]


apply_slippage_Favourable(market_price, direction) ==
    LET slip == R(SLIPPAGE_PCT, 100)
    IN  IF direction = BUY_YES
        THEN RMax(RMul(market_price, RSub(RInt(1), slip)), RInt(1))
        ELSE IF direction = BUY_NO
        THEN RMin(RMul(market_price, RAdd(RInt(1), slip)), RInt(99))
        ELSE market_price

\* apply_slippage(market_price, direction), prices in percentage points
apply_slippage(market_price, direction) ==
    LET slip == R(SLIPPAGE_PCT, 100)
    IN  IF direction = BUY_YES
        THEN RMin(RMul(market_price, RAdd(RInt(1), slip)), RInt(99))
        ELSE IF direction = BUY_NO
        THEN RMax(RMul(market_price, RSub(RInt(1), slip)), RInt(1))
        ELSE market_price

\* round(x, 1), as tenths; tie is the direction in which the float nearest to
\* an exact half of a tenth is rounded ("up" or "down")
Round1T(x, tie) ==
    LET y == RMul(x, RInt(10))
        f == RFloor(y)
        r == RSub(y, RInt(f))
        up == \/ RGt(r, R(1, 2))
              \/ r = R(1, 2) /\ tie = "up"
    IN  R(IF up THEN f + 1 ELSE f, 10)

(***************************************************************************)
(* Market filters and reference probabilities.  A market is a record        *)
(* [platform, title, yes_pct, volume, volume_24hr, days_left, active,       *)
(* closed]: yes_pct a rational in percentage points, the volumes in         *)
(* dollars, days_left the days from now to end_date (Nothing when the       *)
(* market has no end_date or it does not parse).                            *)
(***************************************************************************)
\* kw in t
RECURSIVE Contains(_, _)
Contains(t, kw) ==
    IF Len(t) < Len(kw) THEN FALSE
    ELSE SubSeq(t, 1, Len(kw)) = kw \/ Contains(Tail(t), kw)

esport_keywords ==
    <<<<"l","o","l",":">>, <<"d","o","t","a">>, <<"c","s","g","o">>, <<"c","s","2">>,
      <<"v","a","l","o","r","a","n","t">>, <<"o","v","e","r","w","a","t","c","h">>,
      <<"l","e","a","g","u","e"," ","o","f"," ","l","e","g","e","n","d","s">>,
      <<"g","a","m","e"," ","w","i","n","n","e","r">>, <<"m","a","p"," ","w","i","n","n","e","r">>,
      <<"r","o","u","n","d"," ","w","i","n","n","e","r">>, <<"e","s","p","o","r","t">>,
      <<"f","e","a","r","x">>, <<"t","1"," ","v","s">>, <<"g","e","n",".","g">>,
      <<"c","l","o","u","d","9">>, <<"f","n","a","t","i","c"," ","v","s">>,
      <<"n","a","v","i"," ","v","s">>, <<"g","2"," ","v","s">>,
      <<"1","0","0"," ","t","h","i","e","v","e","s">>,
      <<"t","o","t","a","l"," ","k","i","l","l","s">>, <<"i","n"," ","g","a","m","e"," ","1">>,
      <<"i","n"," ","g","a","m","e"," ","2">>, <<"i","n"," ","g","a","m","e"," ","3">>,
      <<"i","n"," ","g","a","m","e"," ","4">>, <<"i","n"," ","g","a","m","e"," ","5">>,
      <<"f","i","r","s","t"," ","b","l","o","o","d">>,
      <<"f","i","r","s","t"," ","t","o","w","e","r">>,
      <<"f","i","r","s","t"," ","b","a","r","o","n">>, <<"d","r","a","g","o","n">>,
      <<"r","i","f","t"," ","h","e","r","a","l","d">>>>

REFERENCE_PROBS ==
    <<[id |-> "fed_march_nochange", prob |-> 96,
       require_all |-> <<<<"f","e","d">>, <<"m","a","r","c","h">>>>,
       require_any |-> <<<<"n","o"," ","c","h","a","n","g","e">>, <<"h","o","l","d">>,
          <<"u","n","c","h","a","n","g","e","d">>>>,
       exclude |-> <<<<"c","h","a","i","r">>, <<"n","o","m","i","n","a","t","e">>,
          <<"p","o","w","e","l","l">>, <<"w","a","r","s","h">>, <<"d","e","c","r","e","a","s","e">>,
          <<"c","u","t">>, <<"b","p","s">>, <<"2","5">>, <<"5","0">>, <<"7","5">>, <<"1","0","0">>,
          <<"i","n","c","r","e","a","s","e">>, <<"h","i","k","e">>>>],
      [id |-> "fed_april_nochange", prob |-> 82,
       require_all |-> <<<<"f","e","d">>, <<"a","p","r","i","l">>>>,
       require_any |-> <<<<"n","o"," ","c","h","a","n","g","e">>, <<"h","o","l","d">>,
          <<"u","n","c","h","a","n","g","e","d">>>>,
       exclude |-> <<<<"c","h","a","i","r">>, <<"n","o","m","i","n","a","t","e">>,
          <<"d","e","c","r","e","a","s","e">>, <<"c","u","t">>, <<"b","p","s">>,
          <<"i","n","c","r","e","a","s","e">>, <<"h","i","k","e">>>>],
      [id |-> "fed_rate_cuts_2026", prob |-> 47,
       require_all |-> <<<<"f","e","d">>, <<"r","a","t","e">>, <<"c","u","t">>>>,
       require_any |-> <<<<"2","0","2","6">>, <<"b","y"," ","e","n","d"," ","o","f">>,
          <<"t","o","t","a","l">>>>,
       exclude |-> <<<<"c","h","a","i","r">>, <<"n","o","m","i","n","a","t","e">>,
          <<"m","a","r","c","h">>, <<"a","p","r","i","l">>, <<"m","a","y">>,
          <<"j","a","n","u","a","r","y">>>>],
      [id |-> "recession_2026", prob |-> 30,
       require_all |-> <<<<"r","e","c","e","s","s","i","o","n">>>>,
       require_any |-> <<<<"2","0","2","6">>, <<"u","s">>,
          <<"u","n","i","t","e","d"," ","s","t","a","t","e","s">>>>,
       exclude |-> <<<<"g","l","o","b","a","l">>, <<"c","h","i","n","a">>,
          <<"e","u","r","o","p","e">>, <<"g","e","r","m","a","n","y">>, <<"u","k">>,
          <<"j","a","p","a","n">>>>],
      [id |-> "dem_house_2026", prob |-> 85,
       require_all |-> <<<<"h","o","u","s","e">>>>,
       require_any |-> <<<<"d","e","m","o","c","r","a","t">>,
          <<"d","e","m","o","c","r","a","t","i","c"," ","p","a","r","t","y">>,
          <<"2","0","2","6"," ","m","i","d","t","e","r","m">>>>,
       exclude |-> <<<<"s","e","n","a","t","e">>, <<"w","h","i","t","e"," ","h","o","u","s","e">>,
          <<"s","p","e","a","k","e","r">>,
          <<"m","a","j","o","r","i","t","y"," ","l","e","a","d","e","r">>>>],
      [id |-> "china_taiwan_invade", prob |-> 4,
       require_all |-> <<<<"c","h","i","n","a">>, <<"t","a","i","w","a","n">>>>,
       require_any |-> <<<<"i","n","v","a","d","e">>, <<"i","n","v","a","s","i","o","n">>,
          <<"a","t","t","a","c","k">>, <<"b","l","o","c","k","a","d","e">>>>,
       exclude |-> <<<<"g","t","a">>, <<"g","a","m","e">>, <<"e","s","p","o","r","t">>>>],
      [id |-> "ukraine_ceasefire", prob |-> 36,
       require_all |-> <<<<"c","e","a","s","e","f","i","r","e">>>>,
       require_any |-> <<<<"u","k","r","a","i","n","e">>, <<"r","u","s","s","i","a">>>>,
       exclude |-> <<<<"i","s","r","a","e","l">>, <<"i","r","a","n">>, <<"g","a","z","a">>,
          <<"g","t","a">>, <<"e","u","r","o","v","i","s","i","o","n">>, <<"b","r","o","k","e","n">>,
          <<"g","a","m","e">>>>],
      [id |-> "arsenal_epl", prob |-> 83,
       require_all |-> <<<<"a","r","s","e","n","a","l">>, <<"p","r","e","m","i","e","r"," ","l","e","a","g","u","e">>>>,
       require_any |-> <<>>,
       exclude |-> <<<<"c","h","a","m","p","i","o","n","s"," ","l","e","a","g","u","e">>,
          <<"u","c","l">>, <<"f","a"," ","c","u","p">>, <<"g","a","m","e">>,
          <<"e","s","p","o","r","t">>>>],
      [id |-> "f1_russell", prob |-> 33,
       require_all |-> <<<<"r","u","s","s","e","l","l">>>>,
       require_any |-> <<<<"f","1">>, <<"f","o","r","m","u","l","a"," ","1">>,
          <<"d","r","i","v","e","r","s"," ","c","h","a","m","p","i","o","n","s","h","i","p">>>>,
       exclude |-> <<<<"g","a","m","e">>, <<"e","s","p","o","r","t">>, <<"l","o","l">>,
          <<"v","a","l","o","r","a","n","t">>>>],
      [id |-> "okc_nba", prob |-> 30,
       require_all |-> <<<<"t","h","u","n","d","e","r">>>>,
       require_any |-> <<<<"n","b","a">>, <<"n","b","a"," ","c","h","a","m","p","i","o","n">>>>,
       exclude |-> <<<<"g","a","m","e">>, <<"e","s","p","o","r","t">>, <<"r","o","u","n","d">>,
          <<"s","e","r","i","e","s">>>>],
      [id |-> "us_iran_strike", prob |-> 78,
       require_all |-> <<<<"s","t","r","i","k","e">>, <<"i","r","a","n">>>>,
       require_any |-> <<<<"u","s">>, <<"u","n","i","t","e","d"," ","s","t","a","t","e","s">>,
          <<"i","s","r","a","e","l">>>>,
       exclude |-> <<<<"n","e","x","t"," ","s","t","r","i","k","e"," ","o","n">>,
          <<"f","e","b","r","u","a","r","y">>,
          <<"c","e","a","s","e","f","i","r","e"," ","b","r","o","k","e","n">>, <<"g","a","m","e">>>>],
      [id |-> "khamenei_out", prob |-> 12,
       require_all |-> <<<<"k","h","a","m","e","n","e","i">>>>,
       require_any |-> <<<<"o","u","t">>,
          <<"s","u","p","r","e","m","e"," ","l","e","a","d","e","r">>, <<"l","e","a","v","e">>,
          <<"n","o"," ","l","o","n","g","e","r">>>>,
       exclude |-> <<<<"g","a","m","e">>>>],
      [id |-> "openai_ipo", prob |-> 50,
       require_all |-> <<<<"o","p","e","n","a","i">>, <<"i","p","o">>>>,
       require_any |-> <<>>,
       exclude |-> <<<<"m","a","r","k","e","t"," ","c","a","p">>, <<"c","l","o","s","i","n","g">>,
          <<"l","e","s","s"," ","t","h","a","n">>, <<"r","e","v","e","n","u","e">>>>],
      [id |-> "spain_world_cup", prob |-> 20,
       require_all |-> <<<<"s","p","a","i","n">>, <<"w","o","r","l","d"," ","c","u","p">>>>,
       require_any |-> <<>>,
       exclude |-> <<<<"g","a","m","e">>, <<"e","s","p","o","r","t">>,
          <<"g","r","o","u","p"," ","s","t","a","g","e">>>>],
      [id |-> "warsh_fed_chair", prob |-> 93,
       require_all |-> <<<<"w","a","r","s","h">>>>,
       require_any |-> <<<<"f","e","d"," ","c","h","a","i","r">>,
          <<"n","o","m","i","n","a","t","e">>,
          <<"f","e","d","e","r","a","l"," ","r","e","s","e","r","v","e">>,
          <<"c","h","a","i","r","m","a","n">>>>,
       exclude |-> <<<<"c","o","n","f","i","r","m","e","d">>, <<"h","a","s","s","e","t","t">>,
          <<"r","a","t","e">>, <<"c","u","t">>, <<"b","p","s">>>>]>>

\* any(kw in t for kw in kws)
AnyIn(kws, t) == \E i \in 1..Len(kws) : Contains(t, kws[i])

\* find_reference(title): the first entry of REFERENCE_PROBS that matches, if any
find_reference(title) ==
    LET t == StrLower(title)
        hit(ref) == /\ \A i \in 1..Len(ref.require_all) : Contains(t, ref.require_all[i])
                    /\ ref.require_any = <<>> \/ AnyIn(ref.require_any, t)
                    /\ ~AnyIn(ref.exclude, t)
        hits == {k \in 1..Len(REFERENCE_PROBS) : hit(REFERENCE_PROBS[k])}
    IN  IF hits = {} THEN Nothing
        ELSE Some(REFERENCE_PROBS[CHOOSE k \in hits : \A j \in hits : k <= j])

\* t.split(): the maximal runs of non-whitespace characters
RECURSIVE Split(_, _)
Split(t, word) ==
    IF t = <<>> THEN (IF word = <<>> THEN {} ELSE {word})
    ELSE IF Head(t) \in Whitespace
         THEN (IF word = <<>> THEN {} ELSE {word}) \cup Split(Tail(t), <<>>)
         ELSE Split(Tail(t), Append(word, Head(t)))

\* keyword_overlap(t1, t2) as a rational
keyword_overlap(t1, t2) ==
    LET words1 == Split(t1, <<>>)
        words2 == Split(t2, <<>>)
    IN  IF words1 = {} \/ words2 = {} THEN RInt(0)
        ELSE R(Cardinality(words1 \cap words2),
               Min2(Cardinality(words1), Cardinality(words2)))


(***************************************************************************)
(* The market titles of the strategy model, with the title predicates       *)
(* tabulated over them                                                      *)
(***************************************************************************)
Title ==
    [FedMarch |-> <<"F","e","d"," ","h","o","l","d"," ","i","n"," ","M","a","r","c","h","?">>,
     fedmarch |-> <<"f","e","d"," ","m","a","r","c","h"," ","h","o","l","d">>,
     Recession |-> <<"U","S"," ","r","e","c","e","s","s","i","o","n"," ","2","0","2","6">>,
     OpenAI |-> <<"O","p","e","n","A","I"," ","I","P","O">>,
     Khamenei |-> <<"K","h","a","m","e","n","e","i"," ","o","u","t">>,
     Thunder |-> <<"T","h","u","n","d","e","r"," ","N","B","A"," ","d","r","a","g","o","n">>,
     Rain |-> <<"R","a","i","n">>]

StrategyTitles == {Title[k] : k \in DOMAIN Title}

\* any(kw in title_lower for kw in esport_keywords)
HasEsportKeyword == [t \in StrategyTitles |-> AnyIn(esport_keywords, StrLower(t))]
Reference == [t \in StrategyTitles |-> find_reference(t)]
NormTitle == [t \in StrategyTitles |-> normalize_title(t)]
Overlap == [p \in StrategyTitles \X StrategyTitles |->
               keyword_overlap(NormTitle[p[1]], NormTitle[p[2]])]

\* normalize_title(title) and title.strip().lower() of run_bot_engine,
\* tabulated over the titles of both models
MarketKey == [t \in Titles \cup StrategyTitles |-> normalize_title(t)]
ExactTitle == [t \in Titles \cup StrategyTitles |-> StrLower(StrStrip(t))]

is_tradeable_NoBand(mkt) == ~HasEsportKeyword[mkt.title]

is_tradeable(mkt) ==
    LET price == mkt.yes_pct
    IN  IF RLt(price, RInt(MIN_TRADEABLE_PRICE)) \/ RGt(price, RInt(MAX_TRADEABLE_PRICE))
        THEN FALSE
        ELSE ~HasEsportKeyword[mkt.title]


(***************************************************************************)
(* The six strategies.  params is bot["params"], bankroll is                *)
(* state["bankroll"] in cents, tie the direction in which an exact half is  *)
(* rounded.  A proposal is [market, platform, direction, market_price,      *)
(* estimated_prob, edge_pp, bet_amount, arb_detail], bet_amount in cents.   *)
(***************************************************************************)
\* BOTS: id, strategy and params of the six entries
SixBots ==
    <<[id |-> "tiago", strategy |-> "contrarian_value",
       params |-> [min_edge |-> 8, kelly_fraction |-> R(25, 100), min_volume |-> 50000,
                   max_positions |-> 5, min_days_to_expiry |-> 7]],
      [id |-> "mako", strategy |-> "cross_platform_arb",
       params |-> [min_spread |-> 5, kelly_fraction |-> R(5, 10), min_volume |-> 20000,
                   max_positions |-> 8]],
      [id |-> "freya", strategy |-> "momentum_narrative",
       params |-> [volume_surge_ratio |-> 2, kelly_fraction |-> R(33, 100),
                   min_volume_24h |-> 30000, max_positions |-> 6, min_edge |-> 3]],
      [id |-> "ollie", strategy |-> "statistical_value",
       params |-> [min_edge |-> 10, kelly_fraction |-> R(20, 100), min_volume |-> 30000,
                   max_positions |-> 4, min_days_to_expiry |-> 14]],
      [id |-> "pepper", strategy |-> "high_conviction",
       params |-> [min_edge |-> 15, kelly_fraction |-> RInt(1), min_volume |-> 100000,
                   max_positions |-> 3]],
      [id |-> "ming", strategy |-> "tail_risk",
       params |-> [low_threshold |-> 15, high_threshold |-> 85, min_mispricing |-> 5,
                   kelly_fraction |-> R(10, 100), max_positions |-> 6,
                   min_volume |-> 25000]]>>

\* trades.sort(key=lambda t: -t["edge_pp"]): a stable sort, largest edge first
RECURSIVE SortByEdge(_)
SortByEdge(trades) ==
    IF trades = <<>> THEN <<>>
    ELSE LET rest == SortByEdge(Tail(trades))
             t == Head(trades)
             k == Cardinality({i \in 1..Len(rest) : RGt(rest[i].edge_pp, t.edge_pp)})
         IN  SubSeq(rest, 1, k) \o <<t>> \o SubSeq(rest, k + 1, Len(rest))

\* the loop "for mkt in markets": prop(mkt) is <<>> where the body continues
\* and the appended proposal otherwise
Trades(markets, prop(_)) == Concat([i \in 1..Len(markets) |-> prop(markets[i])])

\* kelly_size(est_prob, price / 100, state["bankroll"], params["kelly_fraction"]);
\* est_prob differs from the price at every call, so f_yes and f_no are not 0
Kelly(est_prob, price, bankroll, params, tie) ==
    kelly_size(est_prob, RDiv(price, RInt(100)), Cents(bankroll), params.kelly_fraction,
               [e_yes |-> 0, e_no |-> 0, tie |-> tie])

\* if mkt.get("end_date"): ... if days_left < params.get("min_days_to_expiry", d): continue
ExpiresSoon(mkt, params) ==
    mkt.days_left # Nothing /\ The(mkt.days_left) < params.min_days_to_expiry

Proposal(mkt, direction, estimated_prob, edge_pp, bet, tie) ==
    <<[market |-> mkt.title, platform |-> mkt.platform, direction |-> direction,
       market_price |-> mkt.yes_pct, estimated_prob |-> estimated_prob,
       edge_pp |-> Round1T(edge_pp, tie), bet_amount |-> bet, arb_detail |-> Nothing]>>

\* the body shared by contrarian_value, statistical_value and high_conviction
\* after is_tradeable: reference, edge, volume, (expiry), kelly, minimum bet
ValueProposal(mkt, params, bankroll, tie, expiry, min_bet, own_direction) ==
    LET ref == Reference[mkt.title]
        prob == RInt(The(ref).prob)
        edge_pp == RAbs(RSub(mkt.yes_pct, prob))
        is_underpriced == RLt(mkt.yes_pct, prob)
        by_price == IF is_underpriced THEN BUY_YES ELSE BUY_NO
        sized(k) ==
            IF k.bet < 100 * min_bet THEN <<>>
            ELSE Proposal(mkt, IF own_direction \/ k.dir = None THEN by_price ELSE k.dir,
                          prob, edge_pp, k.bet, tie)
    IN  IF ~is_tradeable(mkt) \/ ref = Nothing THEN <<>>
        ELSE IF RLt(edge_pp, RInt(params.min_edge)) THEN <<>>
        ELSE IF mkt.volume < params.min_volume THEN <<>>
        ELSE IF expiry /\ ExpiresSoon(mkt, params) THEN <<>>
        ELSE sized(Kelly(RDiv(prob, RInt(100)), mkt.yes_pct, bankroll, params, tie))

strategy_contrarian_value(params, markets, poly_markets, kalshi_markets, bankroll, tie) ==
    LET prop(mkt) == ValueProposal(mkt, params, bankroll, tie, TRUE, 10, TRUE)
    IN  FirstN(SortByEdge(Trades(markets, prop)), params.max_positions)

strategy_statistical_value(params, markets, poly_markets, kalshi_markets, bankroll, tie) ==
    LET prop(mkt) == ValueProposal(mkt, params, bankroll, tie, TRUE, 10, FALSE)
    IN  FirstN(SortByEdge(Trades(markets, prop)), params.max_positions)

strategy_high_conviction(params, markets, poly_markets, kalshi_markets, bankroll, tie) ==
    LET prop(mkt) == ValueProposal(mkt, params, bankroll, tie, FALSE, 50, FALSE)
    IN  FirstN(SortByEdge(Trades(markets, prop)), params.max_positions)


\* if mkt.get("closed") or not mkt.get("active", True): continue
Inactive(mkt) == mkt.closed \/ ~mkt.active

strategy_momentum_narrative(params, markets, poly_markets, kalshi_markets, bankroll, tie) ==
    LET prop(mkt) ==
            LET ref == Reference[mkt.title]
                prob == RInt(The(ref).prob)
                edge_pp == RAbs(RSub(mkt.yes_pct, prob))
                sized(k) ==
                    IF k.bet < 100 * 10 THEN <<>>
                    ELSE Proposal(mkt, IF k.dir = None THEN BUY_YES ELSE k.dir,
                                  prob, edge_pp, k.bet, tie)
            IN  IF Inactive(mkt) \/ ~is_tradeable(mkt) THEN <<>>
                ELSE IF mkt.volume_24hr < params.min_volume_24h THEN <<>>
                ELSE IF mkt.volume <= 0 THEN <<>>
                ELSE IF 2 * mkt.volume_24hr > 3 * mkt.volume THEN <<>>
                ELSE IF mkt.volume < 50000 THEN <<>>
                ELSE IF 50 * mkt.volume_24hr < mkt.volume THEN <<>>    \* surge_ratio < 0.02
                ELSE IF ref = Nothing THEN <<>>
                ELSE IF RLt(edge_pp, RInt(params.min_edge)) THEN <<>>
                ELSE sized(Kelly(RDiv(prob, RInt(100)), mkt.yes_pct, bankroll, params, tie))
    IN  FirstN(SortByEdge(Trades(poly_markets, prop)), params.max_positions)

strategy_tail_risk(params, markets, poly_markets, kalshi_markets, bankroll, tie) ==
    LET prop(mkt) ==
            LET ref == Reference[mkt.title]
                yes_pct == mkt.yes_pct
                low == RGe(yes_pct, RInt(2)) /\ RLe(yes_pct, RInt(params.low_threshold))
                high == ~low /\ RGe(yes_pct, RInt(params.high_threshold))
                prob == RInt(The(ref).prob)
                mispriced ==
                    IF low THEN RGt(prob, RAdd(yes_pct, RInt(params.min_mispricing)))
                    ELSE RLt(prob, RSub(yes_pct, RInt(params.min_mispricing)))
                edge_pp == IF ref = Nothing THEN RInt(5) ELSE RAbs(RSub(prob, yes_pct))
                est_pct == IF ref # Nothing THEN prob
                           ELSE IF low THEN RAdd(yes_pct, RInt(5))
                           ELSE RSub(yes_pct, RInt(5))
                est_prob == RDiv(est_pct, RInt(100))
                sized(k) ==
                    IF k.bet < 100 * 5 THEN <<>>
                    ELSE Proposal(mkt, IF low THEN BUY_YES ELSE BUY_NO,
                                  IF ref # Nothing THEN prob ELSE Round1T(est_pct, tie),
                                  edge_pp, k.bet, tie)
            IN  IF ~is_tradeable(mkt) THEN <<>>
                ELSE IF mkt.volume < params.min_volume THEN <<>>
                ELSE IF ~low /\ ~high THEN <<>>
                ELSE IF ref # Nothing /\ ~mispriced THEN <<>>
                ELSE IF low THEN sized(Kelly(est_prob, yes_pct, bankroll, params, tie))
                ELSE sized(Kelly(RSub(RInt(1), est_prob), RSub(RInt(100), yes_pct),
                                 bankroll, params, tie))
    IN  FirstN(SortByEdge(Trades(markets, prop)), params.max_positions)

\* the loop "for t in trades" that keeps the first proposal of every
\* normalized title
RECURSIVE UniqueByTitle(_, _)
UniqueByTitle_KeepAll(trades, seen) == trades

UniqueByTitle(trades, seen) ==
    IF trades = <<>> THEN <<>>
    ELSE LET key == NormTitle[Head(trades).market]
         IN  IF key \in seen THEN UniqueByTitle(Tail(trades), seen)
             ELSE <<Head(trades)>> \o UniqueByTitle(Tail(trades), seen \cup {key})

strategy_cross_platform_arb(params, markets, poly_markets, kalshi_markets, bankroll, tie) ==
    LET pair(pm, km) ==
            LET gap == RSub(pm.yes_pct, km.yes_pct)
                abs_gap == RAbs(gap)
                buy == IF RGt(gap, RInt(0)) THEN km ELSE pm
                sell == IF RGt(gap, RInt(0)) THEN pm ELSE km
                spread_pct == RDiv(abs_gap, RInt(100))
                bet_amount == RMin(RMul(RMul(Cents(bankroll), spread_pct), params.kelly_fraction),
                                   RMul(Cents(bankroll), R(20, 100)))
            IN  IF ~is_tradeable(km) THEN <<>>
                ELSE IF RLt(Overlap[<<pm.title, km.title>>], R(1, 2)) THEN <<>>
                ELSE IF RLt(abs_gap, RInt(params.min_spread)) THEN <<>>
                ELSE IF RLt(bet_amount, RInt(10)) THEN <<>>
                ELSE <<[market |-> pm.title,
                        platform |-> <<buy.platform, sell.platform>>,
                        direction |-> ARB, market_price |-> pm.yes_pct,
                        estimated_prob |-> km.yes_pct,
                        edge_pp |-> Round1T(abs_gap, tie),
                        bet_amount |-> Round2T(bet_amount, tie),
                        arb_detail |-> Some([buy_platform |-> buy.platform,
                                             buy_price |-> buy.yes_pct,
                                             sell_platform |-> sell.platform,
                                             sell_price |-> sell.yes_pct,
                                             spread |-> Round1T(abs_gap, tie)])]>>
        prop(pm) ==
            IF Inactive(pm) \/ ~is_tradeable(pm) THEN <<>>
            ELSE LET inner(km) == pair(pm, km) IN Trades(kalshi_markets, inner)
    IN  FirstN(UniqueByTitle(SortByEdge(Trades(poly_markets, prop)), {}),
               params.max_positions)

(***************************************************************************)
(* Configuration and persisted state                                        *)
(***************************************************************************)
INITIAL_BANKROLL == 10000
EQUITY_CURVE_CAP == 168
TRADE_LOG_CAP == 500
MAX_MARK_JUMP == 15

\* two of the six entries of BOTS (id, strategy, params.max_positions)
Pepper == [id |-> "pepper", strategy |-> "high_conviction", max_positions |-> 3]
Ollie == [id |-> "ollie", strategy |-> "statistical_value", max_positions |-> 4]
\* and the arbitrage agent, with all its params
Mako == [id |-> "mako", strategy |-> "cross_platform_arb",
         max_positions |-> SixBots[2].params.max_positions, params |-> SixBots[2].params]

BotIds(bots) == {bots[i].id : i \in 1..Len(bots)}

\* the default bot_state of load_state() and of state.get(bot["id"], {...})
FreshBotState(t) ==
    [bankroll |-> 100 * INITIAL_BANKROLL,            \* cents
     total_trades |-> 0, winning_trades |-> 0, total_pnl |-> 0,
     peak_bankroll |-> RInt(INITIAL_BANKROLL),       \* dollars
     positions |-> <<>>,
     equity_curve |-> <<[time |-> t, value |-> 100 * INITIAL_BANKROLL]>>]

load_state_AlwaysFresh(db, bots, t) == [b \in BotIds(bots) |-> FreshBotState(t)]

\* load_state(): the persisted blob, or a fresh state for every bot
load_state(db, bots, t) ==
    IF db = Nothing THEN [b \in BotIds(bots) |-> FreshBotState(t)] ELSE The(db)

\* state.get(bot["id"], default)
StateGet(state, id, t) == IF id \in DOMAIN state THEN state[id] ELSE FreshBotState(t)

(***************************************************************************)
(* run_bot_engine: admission loop                                           *)
(***************************************************************************)
\* existing_market_keys: the keys of the positions open before the loop
ExistingMarketKeys(bot_state) ==
    {MarketKey[bot_state.positions[i].market] : i \in 1..Len(bot_state.positions)}

\* hashlib.md5(f"{bot['id']}:{trade['market']}:{now.isoformat()}").hexdigest()[:12],
\* modelled as the hashed triple itself (digest collisions are not modelled)
TradeId(bot, trade, t) == <<bot.id, trade.market, t>>

TradeRecord(bot, trade, t) ==
    [id |-> TradeId(bot, trade, t), bot_id |-> bot.id, timestamp |-> t,
     market |-> trade.market, direction |-> trade.direction,
     entry_price |-> R(Round2(apply_slippage(trade.market_price, trade.direction)), 100),
     bet_amount |-> trade.bet_amount, status |-> "OPEN", pnl |-> 0,
     arb_detail |-> trade.arb_detail]

PositionOf_NetOfFee(rec, trade) ==
    [trade_id |-> rec.id, market |-> trade.market, direction |-> trade.direction,
     entry_price |-> rec.entry_price, current_price |-> trade.market_price,
     bet_amount |-> trade.bet_amount - trade.bet_amount \div 100, timestamp |-> rec.timestamp]

PositionOf_EntryAtQuote(rec, trade) ==
    [trade_id |-> rec.id, market |-> trade.market, direction |-> trade.direction,
     entry_price |-> trade.market_price, current_price |-> trade.market_price,
     bet_amount |-> trade.bet_amount, timestamp |-> rec.timestamp]

\* bot_state["positions"].append({...})
PositionOf(rec, trade) ==
    [trade_id |-> rec.id, market |-> trade.market, direction |-> trade.direction,
     entry_price |-> rec.entry_price, current_price |-> trade.market_price,
     bet_amount |-> trade.bet_amount, timestamp |-> rec.timestamp]

AtCap_CountOnce(bot, bot_state, executed_trades) ==
    Len(bot_state.positions) > bot.max_positions

\* if current_positions + len(executed_trades) >= max_pos: break
\* (current_positions is len(bot_state["positions"]), read inside the loop)
AtCap(bot, bot_state, executed_trades) ==
    Len(bot_state.positions) + Len(executed_trades) >= bot.max_positions

\* the loop "for trade in proposed_trades", from proposal i on
RECURSIVE AdmitFrom(_, _, _, _, _, _, _)
AdmitFrom(bot, bot_state, executed_trades, proposed_trades, i, existing_market_keys, t) ==
    IF i > Len(proposed_trades)
    THEN [bot_state |-> bot_state, executed_trades |-> executed_trades]
    ELSE LET trade == proposed_trades[i]
             rec == TradeRecord(bot, trade, t)
         IN  IF MarketKey[trade.market] \in existing_market_keys
             THEN AdmitFrom(bot, bot_state, executed_trades, proposed_trades, i + 1,
                            existing_market_keys, t)
             ELSE IF AtCap(bot, bot_state, executed_trades)
             THEN [bot_state |-> bot_state, executed_trades |-> executed_trades]
             ELSE AdmitFrom(bot,
                    [bot_state EXCEPT !.bankroll = @ - trade.bet_amount,
                                      !.total_trades = @ + 1,
                                      !.positions = Append(@, PositionOf(rec, trade))],
                    Append(executed_trades, rec), proposed_trades, i + 1,
                    existing_market_keys, t)

(***************************************************************************)
(* run_bot_engine: mark to market and unrealized P&L                        *)
(***************************************************************************)
\* the first market whose title.strip().lower() equals the position's, if any
ExactMatch(pos, all_markets) ==
    LET key == ExactTitle[pos.market]
        hits == {j \in 1..Len(all_markets) : ExactTitle[all_markets[j].title] = key}
    IN  IF hits = {} THEN Nothing
        ELSE Some(all_markets[CHOOSE j \in hits : \A k \in hits : j <= k])

MarkPosition_AnyJump(pos, all_markets) ==
    LET exact_match == ExactMatch(pos, all_markets)
    IN  IF exact_match # Nothing
        THEN [pos EXCEPT !.current_price = The(exact_match).yes_pct]
        ELSE pos

\* one pass of the loop "for pos in bot_state['positions']" that updates
\* current prices
MarkPosition(pos, all_markets) ==
    LET exact_match == ExactMatch(pos, all_markets)
    IN  IF exact_match # Nothing
           /\ RLe(RAbs(RSub(The(exact_match).yes_pct, pos.current_price)),
                  RInt(MAX_MARK_JUMP))
        THEN [pos EXCEPT !.current_price = The(exact_match).yes_pct]
        ELSE pos

MarkToMarket_DropUnlisted(positions, all_markets) ==
    LET listed == SelectSeq(positions, LAMBDA pos : ExactMatch(pos, all_markets) # Nothing)
    IN  [i \in 1..Len(listed) |-> MarkPosition(listed[i], all_markets)]

MarkToMarket(positions, all_markets) ==
    [i \in 1..Len(positions) |-> MarkPosition(positions[i], all_markets)]

\* the contribution of one position to unrealized_pnl (dollars)
PositionPnl(pos) ==
    LET entry == pos.entry_price
        current == pos.current_price
        bet == Cents(pos.bet_amount)
        keep == RSub(RInt(1), R(SLIPPAGE_PCT, 100))
    IN  IF RLe(entry, RInt(0)) \/ RGe(entry, RInt(100)) \/ RLe(current, RInt(0))
        THEN RInt(0)
        ELSE IF pos.direction = BUY_YES
        THEN LET exit_price == RMul(current, keep)
                 shares == RDiv(bet, RDiv(entry, RInt(100)))
             IN  RSub(RMul(shares, RDiv(exit_price, RInt(100))), bet)
        ELSE IF pos.direction = BUY_NO
        THEN LET no_entry == RSub(RInt(100), entry)
                 no_current == RSub(RInt(100), current)
                 exit_price == RMul(no_current, keep)
                 shares == RDiv(bet, RDiv(no_entry, RInt(100)))
             IN  RSub(RMul(shares, RDiv(exit_price, RInt(100))), bet)
        ELSE IF pos.direction = ARB
        THEN IF "arb_detail" \in DOMAIN pos /\ pos.arb_detail # Nothing
             THEN RMul(bet, RMax(RSub(R(The(pos.arb_detail).spread, 100),
                                      R(2 * FEES_PCT, 100)),
                                 RInt(0)))
             ELSE RInt(0)
        ELSE RInt(0)

RECURSIVE UnrealizedPnl(_)
UnrealizedPnl(positions) ==
    IF positions = <<>> THEN RInt(0)
    ELSE RAdd(PositionPnl(Head(positions)), UnrealizedPnl(Tail(positions)))

\* sum(p["bet_amount"] for p in positions), cents
RECURSIVE SumStakes(_)
SumStakes(positions) ==
    IF positions = <<>> THEN 0 ELSE Head(positions).bet_amount + SumStakes(Tail(positions))

CurrentEquity_NoStakes(bot_state, unrealized_pnl) ==
    RAdd(Cents(bot_state.bankroll), unrealized_pnl)

\* current_equity = bankroll + sum of open stakes + unrealized_pnl (dollars)
CurrentEquity(bot_state, unrealized_pnl) ==
    RAdd(Cents(bot_state.bankroll + SumStakes(bot_state.positions)), unrealized_pnl)

AppendSample_KeepOldest(equity_curve, sample) ==
    FirstN(Append(equity_curve, sample), EQUITY_CURVE_CAP)

\* equity_curve.append(...); if len(equity_curve) > 168: equity_curve = equity_curve[-168:]
AppendSample(equity_curve, sample) ==
    LastN(Append(equity_curve, sample), EQUITY_CURVE_CAP)

(***************************************************************************)
(* run_bot_engine: one bot of the loop "for bot in BOTS"                    *)
(***************************************************************************)
PeakBankroll_Latest(peak_bankroll, current_equity) == current_equity

\* bot_state["peak_bankroll"] = max(bot_state.get("peak_bankroll", ...), current_equity)
PeakBankroll(peak_bankroll, current_equity) ==
    RMax(peak_bankroll, current_equity)

\* The outcome of strategy_fn(bot, ...): the list it returns, or an exception
\* raised after it had built the list trades.
ProposedTrades_KeepPartial(outcome) == outcome.trades

\* try: proposed_trades = strategy_fn(...) except Exception: proposed_trades = []
ProposedTrades(outcome) == IF outcome.raised THEN <<>> ELSE outcome.trades

\* "drawdown_pct": round((peak - current_equity) / peak * 100, 2) if peak > 0
\* else 0, in hundredths of a point
DrawdownPct(peak_bankroll, current_equity) ==
    IF RGt(peak_bankroll, RInt(0))
    THEN Round2(RMul(RDiv(RSub(peak_bankroll, current_equity), peak_bankroll), RInt(100)))
    ELSE 0

ProcessBot(bot, state, outcome, all_markets, t) ==
    LET bot_state0 == StateGet(state, bot.id, t)
        proposed_trades == ProposedTrades(outcome)
        existing_market_keys == ExistingMarketKeys(bot_state0)
        adm == AdmitFrom(bot, bot_state0, <<>>, proposed_trades, 1, existing_market_keys, t)
        marked == [adm.bot_state EXCEPT !.positions = MarkToMarket(@, all_markets)]
        unrealized_pnl == UnrealizedPnl(marked.positions)
        current_equity == CurrentEquity(marked, unrealized_pnl)
        sample == [time |-> t, value |-> Round2(current_equity)]
        bot_state == [marked EXCEPT
                        !.peak_bankroll = PeakBankroll(@, current_equity),
                        !.equity_curve = AppendSample(@, sample)]
        \* what the pass leaves: the bot's state, its trade records, the locals
        \* the claims read, and the dict of bot_results.append({...}).  Of the
        \* keys of that dict (the bot's own fields but params, bankroll,
        \* total_equity, total_trades, winning_trades, win_rate, total_pnl,
        \* unrealized_pnl, return_pct, peak_bankroll, drawdown_pct,
        \* open_positions, positions, equity_curve, new_trades,
        \* strategy_params) bot_result has the ones the claims read; the dict
        \* has no other key.
        pass(start, proposed, keys, executed, pnl, equity, final) ==
            [bot_state |-> final,
             executed_trades |-> executed,
             locals |-> [raised |-> outcome.raised,
                         start_positions |-> Len(start.positions),
                         proposed |-> Len(proposed),
                         unmatched |-> Cardinality({i \in 1..Len(proposed) :
                                          MarketKey[proposed[i].market] \notin keys}),
                         unrealized_pnl |-> pnl,
                         current_equity |-> equity],
             bot_result |-> [id |-> bot.id,
                             bankroll |-> final.bankroll,
                             total_equity |-> Round2(equity),
                             total_trades |-> final.total_trades,
                             unrealized_pnl |-> Round2(pnl),
                             peak_bankroll |-> Round2(final.peak_bankroll),
                             drawdown_pct |-> DrawdownPct(final.peak_bankroll, equity),
                             open_positions |-> Len(final.positions),
                             new_trades |-> executed]]
    IN  pass(bot_state0, proposed_trades, existing_market_keys, adm.executed_trades,
             unrealized_pnl, current_equity, bot_state)

\* the loop "for bot in BOTS" from bot i on; acc carries state, new_trades,
\* bot_results and the per-bot locals
RECURSIVE ForBots(_, _, _, _, _, _)
ForBots(bots, i, acc, proposals, all_markets, t) ==
    IF i > Len(bots) THEN acc
    ELSE LET r == ProcessBot(bots[i], acc.state, proposals[i], all_markets, t)
             id == bots[i].id
         IN  ForBots(bots, i + 1,
                [state |-> [b \in DOMAIN acc.state \cup {id} |->
                               IF b = id THEN r.bot_state ELSE acc.state[b]],
                 new_trades |-> acc.new_trades \o r.executed_trades,
                 bot_results |-> Append(acc.bot_results, r.bot_result),
                 locals |-> [b \in DOMAIN acc.locals \cup {id} |->
                               IF b = id THEN r.locals ELSE acc.locals[b]]],
                proposals, all_markets, t)

SaveTrades_KeepOldest(all_trades, new_trades) ==
    FirstN(all_trades \o new_trades, TRADE_LOG_CAP)

\* all_trades.extend(new_trades); if len(all_trades) > 500: all_trades = all_trades[-500:]
SaveTrades(all_trades, new_trades) ==
    LastN(all_trades \o new_trades, TRADE_LOG_CAP)

RECENT_TRADES == 50

\* sorted(..., key=lambda t: t["timestamp"], reverse=True): a stable sort, so
\* records of one timestamp keep their order.  Place(trades) pairs every
\* index of the list with its place in the sorted list.
Place(trades) ==
    {<<Cardinality({j \in 1..Len(trades) :
                      \/ trades[j].timestamp > trades[i].timestamp
                      \/ trades[j].timestamp = trades[i].timestamp /\ j <= i}), i>> :
        i \in 1..Len(trades)}

Placed(trades, place) ==
    [k \in 1..Len(trades) |-> trades[(CHOOSE p \in place : p[1] = k)[2]]]

NewestFirst(trades) == Placed(trades, Place(trades))

\* "recentTrades": sorted(new_trades + all_trades[-50:], ...)[:50], where
\* all_trades is the list just saved: new_trades is already at its end
RecentTrades(new_trades, all_trades) ==
    FirstN(NewestFirst(new_trades \o LastN(all_trades, RECENT_TRADES)), RECENT_TRADES)


(***************************************************************************)
(* Bounds and inputs of the engine                                          *)
(***************************************************************************)
MaxCycles == 2        \* invocations of run_bot_engine per behaviour
MaxProposals == 2     \* length of the list a strategy returns

\* the proposals a strategy may return, in any order and with repetitions
\* (bet_amount in cents, market_price in percentage points)
Pool ==
    { [market |-> T_FedQ, direction |-> BUY_YES, market_price |-> RInt(40),
       bet_amount |-> 10000, arb_detail |-> Nothing],
      [market |-> T_fed, direction |-> BUY_NO, market_price |-> RInt(45),
       bet_amount |-> 80000, arb_detail |-> Nothing],
      [market |-> T_GDP, direction |-> ARB, market_price |-> RInt(60),
       bet_amount |-> 25000, arb_detail |-> Some([spread |-> 6])] }

\* the quoted price of a market in Pool
Pool_price(market) == (CHOOSE p \in Pool : p.market = market).market_price

ListsUpTo(n) == UNION {[1..k -> Pool] : k \in 0..n}

ProposalLists == ListsUpTo(MaxProposals)

\* what a strategy call may do: return a list, or raise after building at
\* most one proposal
Outcomes(maxlen) ==
    {[raised |-> FALSE, trades |-> l] : l \in ListsUpTo(maxlen)}
      \cup {[raised |-> TRUE, trades |-> l] : l \in ListsUpTo(1)}

\* with one agent configured its strategy returns up to MaxProposals
\* proposals; with several agents each returns at most one
StrategyOutcomes(bots) ==
    Outcomes(IF Len(bots) = 1 THEN MaxProposals ELSE 1)

MaxPairCycles == 1    \* invocations per behaviour when several agents run

CycleBound(bots) == IF Len(bots) = 1 THEN MaxCycles ELSE MaxPairCycles

\* the market universes poly_markets + kalshi_markets of a cycle
Universes ==
    { <<[platform |-> "Polymarket", title |-> T_FedQ, yes_pct |-> RInt(40)],
        [platform |-> "Polymarket", title |-> T_GDP, yes_pct |-> RInt(60)],
        [platform |-> "Kalshi", title |-> T_fed, yes_pct |-> RInt(45)]>>,
      <<[platform |-> "Polymarket", title |-> T_FedQ, yes_pct |-> RInt(50)],
        [platform |-> "Polymarket", title |-> T_GDP, yes_pct |-> RInt(55)],
        [platform |-> "Kalshi", title |-> T_fed, yes_pct |-> RInt(65)]>>,
      <<>> }

BotConfigs == {<<Pepper>>, <<Ollie>>}

(***************************************************************************)
(* The engine                                                               *)
(***************************************************************************)
InitEngine ==
    /\ BOTS \in BotConfigs
    /\ db_state = Nothing
    /\ db_trades = <<>>
    /\ now = 0
    /\ result = Nothing
    /\ cyc = Nothing
    /\ invocations = <<>>

Init ==
    /\ InitEngine
    /\ arg = Nothing
    /\ ret = Nothing

run_bot_engine ==
    /\ now < CycleBound(BOTS)
    /\ \E all_markets \in Universes :
       \E proposals \in [1..Len(BOTS) -> StrategyOutcomes(BOTS)] :
          LET t == now + 1
              state == load_state(db_state, BOTS, t)
              all_trades == db_trades
          IN  \E out \in {ForBots(BOTS, 1,
                                  [state |-> state, new_trades |-> <<>>,
                                   bot_results |-> <<>>, locals |-> <<>>],
                                  proposals, all_markets, t)} :
              /\ now' = t
              /\ db_state' = Some(out.state)
              /\ db_trades' = SaveTrades(all_trades, out.new_trades)
              \* the returned dict has the keys timestamp, lastUpdated,
              \* lastUpdatedHuman, totalMarkets, polymarketCount, kalshiCount,
              \* bots, recentTrades and newTradesCount, and no other
              /\ result' = Some([lastUpdated |-> t,
                                 totalMarkets |-> Len(all_markets),
                                 bots |-> out.bot_results,
                                 recentTrades |-> RecentTrades(out.new_trades,
                                     SaveTrades(all_trades, out.new_trades)),
                                 newTradesCount |-> Len(out.new_trades)])
              /\ cyc' = Some(out.locals)
    /\ UNCHANGED <<BOTS, arg, ret, invocations>>

Next == run_bot_engine

Spec == Init /\ [][Next]_vars

(***************************************************************************)
(* The engine started on stored blobs: either no files yet, or the blobs    *)
(* left by a long history.  AgedCurve is the equity curve of an agent that  *)
(* has held no position for CurvePrefill - 1 cycles (the first cycle, at    *)
(* time 2 - CurvePrefill, created the state and appended a sample at the    *)
(* same time).  AgedLog is a trade log of LogPrefill records kept across    *)
(* resets of the agent states (the handler's action=reset deletes the two   *)
(* blobs independently and ignores a failed delete).                        *)
(***************************************************************************)
CurvePrefill == 167
LogPrefill == 499

AgedCurve ==
    [i \in 1..CurvePrefill |->
        [time |-> Max2(i - 1, 1) + 1 - CurvePrefill, value |-> 100 * INITIAL_BANKROLL]]

AgedLog ==
    [i \in 1..LogPrefill |->
        [id |-> <<"pepper", T_GDP, i - LogPrefill - CurvePrefill>>, bot_id |-> "pepper",
         timestamp |-> i - LogPrefill - CurvePrefill,
         market |-> T_GDP, direction |-> BUY_YES, entry_price |-> R(4080, 100),
         bet_amount |-> 10000, status |-> "OPEN", pnl |-> 0, arb_detail |-> Nothing]]

AgedState ==
    [b \in {"pepper"} |->
        [FreshBotState(0) EXCEPT !.equity_curve = AgedCurve]]

InitStored ==
    /\ BOTS = <<Pepper>>
    /\ \/ db_state = Nothing /\ db_trades = <<>>
       \/ db_state = Some(AgedState) /\ db_trades = AgedLog
    /\ now = 0
    /\ result = Nothing
    /\ cyc = Nothing
    /\ invocations = <<>>
    /\ arg = Nothing
    /\ ret = Nothing

SpecStored == InitStored /\ [][Next]_vars


(***************************************************************************)
(* Two agents in one run.  The store is empty, or holds what a run at time  *)
(* 0 with Pepper alone left after it admitted the proposal of Pool for      *)
(* "Fed?" at the quoted price 40: one trade record, one open position and   *)
(* the equity sample of that run.                                           *)
(***************************************************************************)
Pair == <<Pepper, Ollie>>

HeldLog ==
    <<[id |-> <<"pepper", T_FedQ, 0>>, bot_id |-> "pepper", timestamp |-> 0,
       market |-> T_FedQ, direction |-> BUY_YES, entry_price |-> R(4080, 100),
       bet_amount |-> 10000, status |-> "OPEN", pnl |-> 0, arb_detail |-> Nothing]>>

HeldState ==
    [b \in {"pepper"} |->
        [FreshBotState(0) EXCEPT
            !.bankroll = @ - 10000,
            !.total_trades = 1,
            !.positions = <<[trade_id |-> <<"pepper", T_FedQ, 0>>, market |-> T_FedQ,
                             direction |-> BUY_YES, entry_price |-> R(4080, 100),
                             current_price |-> RInt(40), bet_amount |-> 10000,
                             timestamp |-> 0]>>,
            !.equity_curve = Append(@, [time |-> 0, value |-> 999608])]]

InitPair ==
    /\ BOTS = Pair
    /\ \/ db_state = Nothing /\ db_trades = <<>>
       \/ db_state = Some(HeldState) /\ db_trades = HeldLog
    /\ now = 0
    /\ result = Nothing
    /\ cyc = Nothing
    /\ invocations = <<>>
    /\ arg = Nothing
    /\ ret = Nothing

SpecPair == InitPair /\ [][Next]_vars


(***************************************************************************)
(* One agent at its position cap.  The store is empty, or holds what two    *)
(* runs with Pepper alone left: the run at time -1 admitted the proposals   *)
(* of Pool for "Fed?" and "fed", the run at time 0 the one for "GDP", both  *)
(* with the quotes 40, 60 and 45.  Pepper then holds max_positions = 3 open *)
(* positions.                                                               *)
(***************************************************************************)
CapLog ==
    <<[id |-> <<"pepper", T_FedQ, -1>>, bot_id |-> "pepper", timestamp |-> -1,
       market |-> T_FedQ, direction |-> BUY_YES, entry_price |-> R(4080, 100),
       bet_amount |-> 10000, status |-> "OPEN", pnl |-> 0, arb_detail |-> Nothing],
      [id |-> <<"pepper", T_fed, -1>>, bot_id |-> "pepper", timestamp |-> -1,
       market |-> T_fed, direction |-> BUY_NO, entry_price |-> R(4410, 100),
       bet_amount |-> 80000, status |-> "OPEN", pnl |-> 0, arb_detail |-> Nothing],
      [id |-> <<"pepper", T_GDP, 0>>, bot_id |-> "pepper", timestamp |-> 0,
       market |-> T_GDP, direction |-> ARB, entry_price |-> RInt(60),
       bet_amount |-> 25000, status |-> "OPEN", pnl |-> 0,
       arb_detail |-> Some([spread |-> 6])]>>

CapState ==
    [b \in {"pepper"} |->
        [FreshBotState(-1) EXCEPT
            !.bankroll = @ - 115000,
            !.total_trades = 3,
            !.positions =
                [i \in 1..3 |->
                    [trade_id |-> CapLog[i].id, market |-> CapLog[i].market,
                     direction |-> CapLog[i].direction,
                     entry_price |-> CapLog[i].entry_price,
                     current_price |-> Pool_price(CapLog[i].market),
                     bet_amount |-> CapLog[i].bet_amount,
                     timestamp |-> CapLog[i].timestamp]],
            !.equity_curve = @ \o <<[time |-> -1, value |-> 996746],
                                    [time |-> 0, value |-> 996746]>>]]

InitAtCap ==
    /\ BOTS = <<Pepper>>
    /\ \/ db_state = Nothing /\ db_trades = <<>>
       \/ db_state = Some(CapState) /\ db_trades = CapLog
    /\ now = 0
    /\ result = Nothing
    /\ cyc = Nothing
    /\ invocations = <<>>
    /\ arg = Nothing
    /\ ret = Nothing

SpecAtCap == InitAtCap /\ [][Next]_vars

\* The same agent when its strategy may also propose a market of a third
\* normalized title, one it does not hold at the cap.
WidePool ==
    Pool \cup {[market |-> Title.Rain, direction |-> BUY_YES, market_price |-> RInt(50),
                bet_amount |-> 10000, arb_detail |-> Nothing]}

WideLists == UNION {[1..k -> WidePool] : k \in 0..MaxProposals}

run_wide_engine ==
    /\ now < MaxCycles
    /\ \E all_markets \in Universes :
       \E proposed_trades \in WideLists :
          LET t == now + 1
              state == load_state(db_state, BOTS, t)
              all_trades == db_trades
          IN  \E out \in {ForBots(BOTS, 1,
                                  [state |-> state, new_trades |-> <<>>,
                                   bot_results |-> <<>>, locals |-> <<>>],
                                  <<[raised |-> FALSE, trades |-> proposed_trades]>>,
                                  all_markets, t)} :
              /\ now' = t
              /\ db_state' = Some(out.state)
              /\ db_trades' = SaveTrades(all_trades, out.new_trades)
              /\ result' = Some([lastUpdated |-> t,
                                 totalMarkets |-> Len(all_markets),
                                 bots |-> out.bot_results,
                                 recentTrades |-> RecentTrades(out.new_trades,
                                     SaveTrades(all_trades, out.new_trades)),
                                 newTradesCount |-> Len(out.new_trades)])
              /\ cyc' = Some(out.locals)
    /\ UNCHANGED <<BOTS, arg, ret, invocations>>

SpecWide == InitAtCap /\ [][run_wide_engine]_vars


(***************************************************************************)
(* Overlapping invocations.  Two requests run run_bot_engine step by step:  *)
(* load_state(), load_trades(), the loop over BOTS followed by save_state(), *)
(* then save_trades() and the return.  Nothing orders the steps of one      *)
(* request with those of the other: the code takes no lock.                 *)
(***************************************************************************)
Requests == {1, 2}

\* a request that has not called run_bot_engine yet.  seen_saves is the
\* number of saves other requests had completed when this one loaded the
\* trade log, began_after the requests that had returned when it started,
\* state_seq and trades_seq the rank of its two saves among all saves.
NotStarted ==
    [pc |-> "start", t |-> 0, state |-> Nothing, all_trades |-> <<>>,
     total_markets |-> 0, new_trades |-> <<>>, bot_results |-> <<>>,
     began_after |-> {}, seen_saves |-> 0, state_seq |-> 0, trades_seq |-> 0]

\* the save_state and save_trades calls completed so far
SavesDone ==
    Cardinality({q \in Requests : invocations[q].pc \in {"saved_state", "done"}})
      + Cardinality({q \in Requests : invocations[q].pc = "done"})

InitRace ==
    /\ BOTS = <<Pepper>>
    /\ db_state = Nothing
    /\ db_trades = <<>>
    /\ now = 0
    /\ result = Nothing
    /\ cyc = Nothing
    /\ invocations = [r \in Requests |-> NotStarted]
    /\ arg = Nothing
    /\ ret = Nothing

\* now = datetime.now(timezone.utc); ...; state = load_state()
LoadState(r) ==
    /\ invocations[r].pc = "start"
    /\ now' = now + 1
    /\ invocations' = [invocations EXCEPT ![r] =
            [@ EXCEPT !.pc = "loaded_state", !.t = now + 1,
                      !.state = Some(load_state(db_state, BOTS, now + 1)),
                      !.began_after = {q \in Requests : invocations[q].pc = "done"}]]
    /\ UNCHANGED <<BOTS, db_state, db_trades, result, cyc, arg, ret>>

\* all_trades = load_trades()
LoadTrades(r) ==
    /\ invocations[r].pc = "loaded_state"
    /\ invocations' = [invocations EXCEPT ![r] =
            [@ EXCEPT !.pc = "loaded", !.all_trades = db_trades,
                      !.seen_saves = SavesDone]]
    /\ UNCHANGED <<BOTS, db_state, db_trades, now, result, cyc, arg, ret>>

\* for bot in BOTS: ...; save_state(state)
SaveState(r) ==
    /\ invocations[r].pc = "loaded"
    /\ \E all_markets \in Universes :
       \E trades \in ListsUpTo(1) :
       \E out \in {ForBots(BOTS, 1,
                           [state |-> The(invocations[r].state), new_trades |-> <<>>,
                            bot_results |-> <<>>, locals |-> <<>>],
                           <<[raised |-> FALSE, trades |-> trades]>>,
                           all_markets, invocations[r].t)} :
          /\ db_state' = Some(out.state)
          /\ cyc' = Some(out.locals)
          /\ invocations' = [invocations EXCEPT ![r] =
                  [@ EXCEPT !.pc = "saved_state", !.total_markets = Len(all_markets),
                            !.new_trades = out.new_trades,
                            !.bot_results = out.bot_results,
                            !.state_seq = SavesDone + 1]]
    /\ UNCHANGED <<BOTS, db_trades, now, result, arg, ret>>

\* all_trades.extend(new_trades); ...; save_trades(all_trades); return {...}
SaveTradesAndReturn(r) ==
    /\ invocations[r].pc = "saved_state"
    /\ db_trades' = SaveTrades(invocations[r].all_trades, invocations[r].new_trades)
    /\ result' = Some([lastUpdated |-> invocations[r].t,
                       totalMarkets |-> invocations[r].total_markets,
                       bots |-> invocations[r].bot_results,
                       recentTrades |-> RecentTrades(invocations[r].new_trades,
                           SaveTrades(invocations[r].all_trades, invocations[r].new_trades)),
                       newTradesCount |-> Len(invocations[r].new_trades)])
    /\ invocations' = [invocations EXCEPT ![r] =
            [@ EXCEPT !.pc = "done", !.trades_seq = SavesDone + 1]]
    /\ UNCHANGED <<BOTS, db_state, now, cyc, arg, ret>>

NextRace ==
    \E r \in Requests :
        \/ LoadState(r)
        \/ LoadTrades(r)
        \/ SaveState(r)
        \/ SaveTradesAndReturn(r)

SpecRace == InitRace /\ [][NextRace]_vars

(***************************************************************************)
(* Pure functions under test.  The engine is idle; arg holds the argument   *)
(* drawn by Init and the call action stores the return value in ret.        *)
(***************************************************************************)
InitIdleEngine ==
    /\ BOTS = <<Pepper>>
    /\ db_state = Nothing
    /\ db_trades = <<>>
    /\ now = 0
    /\ result = Nothing
    /\ cyc = Nothing
    /\ invocations = <<>>

\* ---- normalize_title ----
MaxTokens == 3        \* title fragments per input title

TitleTokens ==
    { <<"F","e","d">>,
      <<" ","c","u","t">>,
      <<"W","i","l","l"," ">>,
      <<"t","h","e"," ">>,
      <<" ","i","n"," ","2","0","2","6">>,
      <<"?">>,
      <<" ","\t">> }

TitleInputs == {Concat(ts) : ts \in UNION {[1..n -> TitleTokens] : n \in 0..MaxTokens}}

InitNorm ==
    /\ InitIdleEngine
    /\ arg \in {Some(t) : t \in TitleInputs}
    /\ ret = Nothing

CallNormalizeTitle ==
    /\ ret = Nothing
    /\ ret' = Some(normalize_title(The(arg)))
    /\ UNCHANGED <<BOTS, db_state, db_trades, now, result, cyc, arg, invocations>>

NextNorm == CallNormalizeTitle

SpecNorm == InitNorm /\ [][NextNorm]_vars

\* ---- kelly_size ----
\* probabilities in thousandths, bankrolls in cents, Kelly fractions in hundredths
KellyProbs == {0, 5, 10, 20, 100, 250, 400, 500, 550, 600, 900, 980, 990, 1000}
KellyBankrolls == {0, 4, 44, 333, 334, 10000, 1000000}
KellyFractions == {1, 10, 25, 33, 50, 100}

KellyArgs ==
    { [estimated_prob |-> R(p, 1000), market_price |-> R(m, 1000),
       bankroll |-> Cents(b), kelly_fraction |-> R(k, 100)] :
         p \in KellyProbs, m \in KellyProbs, b \in KellyBankrolls, k \in KellyFractions }

InitKelly ==
    /\ InitIdleEngine
    /\ arg \in {Some(a) : a \in KellyArgs}
    /\ ret = Nothing

CallKellySize ==
    /\ ret = Nothing
    /\ \E fp \in FloatOutcomes :
          ret' = Some([out |-> kelly_size(The(arg).estimated_prob, The(arg).market_price,
                                          The(arg).bankroll, The(arg).kelly_fraction, fp),
                       fp |-> fp])
    /\ UNCHANGED <<BOTS, db_state, db_trades, now, result, cyc, arg, invocations>>

NextKelly == CallKellySize

SpecKelly == InitKelly /\ [][NextKelly]_vars

(***************************************************************************)
(* Kalshi price parsing: scanner.extract_kalshi_yes_pct and the two         *)
(* fetch_kalshi_markets (scanner.py and bots.py).  A raw price field is     *)
(* Nothing when the key is missing, None or not numeric (float(val) raises) *)
(* and Some(rational) otherwise.  A raw record carries its ticker, which    *)
(* the admitted market keeps.                                               *)
(***************************************************************************)
\* safe_float(val, default): float(val), or default when float raises
safe_float(val, default) == IF val = Nothing THEN default ELSE val

\* scanner._normalize_to_cents(val): values in (0, 1] are dollars
normalize_to_cents(val) ==
    LET v == safe_float(val, Nothing)
    IN  IF v = Nothing THEN Nothing
        ELSE IF RGt(The(v), RInt(0)) /\ RLe(The(v), RInt(1))
             THEN Some(RMul(The(v), RInt(100)))
             ELSE v

InCentRange(x) == RGt(x, RInt(0)) /\ RLe(x, RInt(100))

\* steps 5 and 6 of extract_kalshi_yes_pct: last_price, then the dollar fields
DollarFields(market, fields) ==
    LET ok == SelectSeq(fields, LAMBDA fld :
                  LET raw == safe_float(market[fld], Nothing)
                  IN  /\ raw # Nothing
                      /\ RGt(The(raw), RInt(0))
                      /\ InCentRange(RMul(The(raw), RInt(100))))
    IN  IF ok = <<>> THEN Nothing
        ELSE Some(RMul(The(market[ok[1]]), RInt(100)))

LastPriceOrDollar(market) ==
    LET last == normalize_to_cents(market.last_price)
    IN  IF last # Nothing /\ InCentRange(The(last)) THEN last
        ELSE DollarFields(market, <<"yes_price_dollar", "last_price_dollar">>)

\* steps 2-4 of extract_kalshi_yes_pct: midpoint, ask alone, bid alone
BidAsk(yes_bid, yes_ask) ==
    LET bid_ok == yes_bid # Nothing /\ RGt(The(yes_bid), RInt(0))
        ask_ok == yes_ask # Nothing /\ RGt(The(yes_ask), RInt(0))
        mid == RDiv(RAdd(The(yes_bid), The(yes_ask)), RInt(2))
    IN  IF bid_ok /\ ask_ok
        THEN IF InCentRange(mid) THEN Some(mid) ELSE Nothing
        ELSE IF ask_ok
        THEN IF InCentRange(The(yes_ask)) THEN yes_ask ELSE Nothing
        ELSE IF bid_ok
        THEN IF InCentRange(The(yes_bid)) THEN yes_bid ELSE Nothing
        ELSE Nothing

\* scanner.extract_kalshi_yes_pct(market): a price in cents, or Nothing
extract_kalshi_yes_pct(market) ==
    LET yes_price == normalize_to_cents(market.yes_price)
        ba == BidAsk(normalize_to_cents(market.yes_bid),
                     normalize_to_cents(market.yes_ask))
    IN  IF yes_price # Nothing /\ RGt(The(yes_price), RInt(0))
        THEN IF RGt(The(yes_price), RInt(100)) THEN Nothing ELSE yes_price
        ELSE IF ba # Nothing THEN ba
        ELSE LastPriceOrDollar(market)

\* the body of scanner.fetch_kalshi_markets for the records of one page
scanner_fetch_kalshi_markets(page, tie) ==
    LET admitted == SelectSeq(page, LAMBDA m :
                        LET yes_pct == extract_kalshi_yes_pct(m)
                        IN  ~(yes_pct = Nothing \/ RLe(The(yes_pct), RInt(0))))
    IN  [i \in 1..Len(admitted) |->
            [ticker |-> admitted[i].ticker,
             yes_price |-> Round1T(The(extract_kalshi_yes_pct(admitted[i])), tie)]]

\* bots.fetch_kalshi_markets: yes_price if it parses, else the midpoint when
\* both yes_bid and yes_ask are non-zero, else 0
BotsYesPct(m) ==
    LET yes_price == safe_float(m.yes_price, Nothing)
        yes_bid == The(safe_float(m.yes_bid, Some(RInt(0))))
        yes_ask == The(safe_float(m.yes_ask, Some(RInt(0))))
    IN  IF yes_price # Nothing THEN The(yes_price)
        ELSE IF yes_bid # RInt(0) /\ yes_ask # RInt(0)
             THEN RDiv(RAdd(yes_bid, yes_ask), RInt(2))
             ELSE RInt(0)

\* the body of bots.fetch_kalshi_markets for the records of one page
bots_fetch_kalshi_markets(page, tie) ==
    LET admitted == SelectSeq(page, LAMBDA m : ~RLe(BotsYesPct(m), RInt(0)))
    IN  [i \in 1..Len(admitted) |->
            [ticker |-> admitted[i].ticker,
             yes_pct |-> Round1T(BotsYesPct(admitted[i]), tie)]]

\* ---- inputs: raw Kalshi records ----
NoPrices ==
    [ticker |-> 0, yes_price |-> Nothing, yes_bid |-> Nothing, yes_ask |-> Nothing,
     last_price |-> Nothing, yes_price_dollar |-> Nothing, last_price_dollar |-> Nothing]

Raw(vals) == {Nothing} \cup {Some(v) : v \in vals}

RawRecords ==
    [ticker : {1},
     yes_price : Raw({RInt(0), R(1, 2500), R(42, 100), RInt(1), RInt(30), RInt(55),
                      RInt(100), RInt(150), RInt(-5)}),
     yes_bid : Raw({RInt(0), R(40, 100), RInt(30), RInt(150)}),
     yes_ask : Raw({RInt(0), R(50, 100), RInt(55), RInt(150)}),
     last_price : Raw({RInt(0), R(72, 100), RInt(72), RInt(150)}),
     yes_price_dollar : Raw({R(55, 100), RInt(2)}),
     last_price_dollar : Raw({R(33, 100)})]

\* KALSHI_FIXTURE of test_kalshi_parser.py
KALSHI_FIXTURE ==
    << [NoPrices EXCEPT !.ticker = 1, !.yes_price = Some(RInt(65))],
       [NoPrices EXCEPT !.ticker = 2, !.yes_bid = Some(RInt(40)), !.yes_ask = Some(RInt(50))],
       [NoPrices EXCEPT !.ticker = 3, !.yes_bid = Some(RInt(0)), !.yes_ask = Some(RInt(72))],
       [NoPrices EXCEPT !.ticker = 4, !.last_price = Some(RInt(55))],
       [NoPrices EXCEPT !.ticker = 5, !.yes_price = Some(R(42, 100))],
       [NoPrices EXCEPT !.ticker = 6] >>

KalshiPages == {<<m>> : m \in RawRecords} \cup {KALSHI_FIXTURE}

InitKalshi ==
    /\ InitIdleEngine
    /\ arg \in {Some(page) : page \in KalshiPages}
    /\ ret = Nothing

CallExtractKalshiYesPct ==
    /\ ret = Nothing
    /\ \E i \in 1..Len(The(arg)) :
          ret' = Some([fn |-> "extract_kalshi_yes_pct", market |-> The(arg)[i],
                       out |-> extract_kalshi_yes_pct(The(arg)[i])])
    /\ UNCHANGED <<BOTS, db_state, db_trades, now, result, cyc, arg, invocations>>

CallScannerFetchKalshi ==
    /\ ret = Nothing
    /\ \E tie \in {"up", "down"} :
          ret' = Some([fn |-> "scanner.fetch_kalshi_markets",
                       out |-> scanner_fetch_kalshi_markets(The(arg), tie)])
    /\ UNCHANGED <<BOTS, db_state, db_trades, now, result, cyc, arg, invocations>>

CallBotsFetchKalshi ==
    /\ ret = Nothing
    /\ \E tie \in {"up", "down"} :
          ret' = Some([fn |-> "bots.fetch_kalshi_markets",
                       out |-> bots_fetch_kalshi_markets(The(arg), tie)])
    /\ UNCHANGED <<BOTS, db_state, db_trades, now, result, cyc, arg, invocations>>

NextKalshi ==
    \/ CallExtractKalshiYesPct
    \/ CallScannerFetchKalshi
    \/ CallBotsFetchKalshi

SpecKalshi == InitKalshi /\ [][NextKalshi]_vars

(***************************************************************************)
(* The admission step on one proposal: a fresh agent is offered one         *)
(* proposal at any price of the tradeable band (market prices are stored    *)
(* rounded to one decimal).                                                 *)
(***************************************************************************)
TradeablePrices ==
    {R(k, 10) : k \in (10 * MIN_TRADEABLE_PRICE)..(10 * MAX_TRADEABLE_PRICE)}

AdmitInputs ==
    { [market |-> T_GDP, direction |-> d, market_price |-> q, bet_amount |-> 10000,
       arb_detail |-> IF d = ARB THEN Some([spread |-> 6]) ELSE Nothing] :
         d \in {BUY_YES, BUY_NO, ARB}, q \in TradeablePrices }

InitAdmit ==
    /\ InitIdleEngine
    /\ arg \in {Some(trade) : trade \in AdmitInputs}
    /\ ret = Nothing

CallAdmit ==
    /\ ret = Nothing
    /\ ret' = Some(AdmitFrom(Pepper, FreshBotState(1), <<>>, <<The(arg)>>, 1, {}, 1))
    /\ UNCHANGED <<BOTS, db_state, db_trades, now, result, cyc, arg, invocations>>

NextAdmit == CallAdmit

SpecAdmit == InitAdmit /\ [][NextAdmit]_vars

(***************************************************************************)
(* The mark-to-market step on one position: a position last marked at 45 or *)
(* 50 meets a universe of at most MaxSnapshots snapshots.                   *)
(***************************************************************************)
MaxSnapshots == 2     \* snapshots in the universe of the marking step

MarkInputs ==
    {[pos |-> [trade_id |-> <<"pepper", title, 0>>, market |-> title,
               direction |-> BUY_YES, entry_price |-> R(4590, 100),
               current_price |-> RInt(mark), bet_amount |-> 10000, timestamp |-> 0],
      all_markets |-> u] :
        title \in {T_FedQ, T_fed}, mark \in {45, 50},
        u \in UNION {[1..k -> {[platform |-> "Polymarket", title |-> s, yes_pct |-> RInt(q)] :
                                  s \in {T_FedQ, T_fed, T_FED}, q \in {40, 50, 66}}] :
                      k \in 0..MaxSnapshots}}

InitMark ==
    /\ InitIdleEngine
    /\ arg \in {Some(a) : a \in MarkInputs}
    /\ ret = Nothing

CallMarkPosition ==
    /\ ret = Nothing
    /\ ret' = Some(MarkPosition(The(arg).pos, The(arg).all_markets))
    /\ UNCHANGED <<BOTS, db_state, db_trades, now, result, cyc, arg, invocations>>

SpecMark == InitMark /\ [][CallMarkPosition]_vars

(***************************************************************************)
(* The strategies as pure functions: arg holds the bot and the two venues'  *)
(* market lists drawn by Init, the call stores the returned list in ret.    *)
(***************************************************************************)
MaxMarkets == 3       \* markets of both venues together

Mkt(platform, title, yes_pct, days_left, closed) ==
    [platform |-> platform, title |-> title, yes_pct |-> yes_pct,
     volume |-> 200000, volume_24hr |-> 40000, days_left |-> days_left,
     active |-> TRUE, closed |-> closed]

PolyPool ==
    { Mkt("Polymarket", Title.FedMarch, RInt(70), Some(30), FALSE),
      Mkt("Polymarket", Title.Recession, RInt(50), Nothing, FALSE),
      Mkt("Polymarket", Title.OpenAI, RInt(96), Some(30), FALSE),
      Mkt("Polymarket", Title.Khamenei, RInt(6), Some(30), TRUE),
      Mkt("Polymarket", Title.Rain, RInt(90), Some(30), FALSE) }

KalshiPool ==
    { Mkt("Kalshi", Title.Thunder, RInt(60), Some(30), FALSE),
      Mkt("Kalshi", Title.fedmarch, RInt(80), Some(30), FALSE),
      Mkt("Kalshi", Title.Rain, RInt(4), Some(30), FALSE),
      Mkt("Kalshi", Title.Recession, RInt(45), Some(3), FALSE),
      Mkt("Kalshi", Title.FedMarch, RInt(25), Some(30), FALSE) }

\* the lists of at most n different markets of pool
ListsOf(pool, n) ==
    UNION {{l \in [1..k -> pool] : \A i, j \in 1..k : i < j => l[i] # l[j]} : k \in 0..n}

\* the bot argument: an entry of BOTS, or one with max_positions set to 1
StrategyBots ==
    UNION {{SixBots[i], [SixBots[i] EXCEPT !.params.max_positions = 1]} : i \in 1..Len(SixBots)}

\* the arguments of a call: at most MaxMarkets markets in the two lists together
StrategyArgs ==
    UNION {{[bot |-> b, poly_markets |-> p, kalshi_markets |-> k] :
                b \in StrategyBots, k \in ListsOf(KalshiPool, MaxMarkets - Len(p))} :
           p \in ListsOf(PolyPool, MaxMarkets)}

InitStrategy ==
    /\ InitIdleEngine
    /\ arg \in {Some(a) : a \in StrategyArgs}
    /\ ret = Nothing

\* strategy_fn = STRATEGY_MAP.get(bot["strategy"]);
\* proposed_trades = strategy_fn(bot, all_markets, poly_markets, kalshi_markets, bot_state)
\* with all_markets = poly_markets + kalshi_markets and a fresh bot_state
CallStrategy ==
    /\ ret = Nothing
    /\ \E tie \in {"up", "down"} :
       \E bankroll \in {100 * INITIAL_BANKROLL} :
          LET strategy == The(arg).bot.strategy
              params == The(arg).bot.params
              poly_markets == The(arg).poly_markets
              kalshi_markets == The(arg).kalshi_markets
              markets == poly_markets \o kalshi_markets
          IN  \/ /\ strategy = "contrarian_value"
                 /\ ret' = Some(strategy_contrarian_value(
                                  params, markets, poly_markets, kalshi_markets, bankroll, tie))
              \/ /\ strategy = "cross_platform_arb"
                 /\ ret' = Some(strategy_cross_platform_arb(
                                  params, markets, poly_markets, kalshi_markets, bankroll, tie))
              \/ /\ strategy = "momentum_narrative"
                 /\ ret' = Some(strategy_momentum_narrative(
                                  params, markets, poly_markets, kalshi_markets, bankroll, tie))
              \/ /\ strategy = "statistical_value"
                 /\ ret' = Some(strategy_statistical_value(
                                  params, markets, poly_markets, kalshi_markets, bankroll, tie))
              \/ /\ strategy = "high_conviction"
                 /\ ret' = Some(strategy_high_conviction(
                                  params, markets, poly_markets, kalshi_markets, bankroll, tie))
              \/ /\ strategy = "tail_risk"
                 /\ ret' = Some(strategy_tail_risk(
                                  params, markets, poly_markets, kalshi_markets, bankroll, tie))
    /\ UNCHANGED <<BOTS, db_state, db_trades, now, result, cyc, arg, invocations>>

NextStrategy == CallStrategy

SpecStrategy == InitStrategy /\ [][NextStrategy]_vars

(***************************************************************************)
(* The arbitrage agent in the engine: arg holds the two venues' market      *)
(* lists the run fetches, and the proposals are what                        *)
(* strategy_cross_platform_arb returns for them.                            *)
(***************************************************************************)
InitArb ==
    /\ BOTS = <<Mako>>
    /\ db_state = Nothing
    /\ db_trades = <<>>
    /\ now = 0
    /\ result = Nothing
    /\ cyc = Nothing
    /\ invocations = <<>>
    /\ arg \in UNION {{Some([poly_markets |-> p, kalshi_markets |-> k]) :
                          k \in ListsOf(KalshiPool, MaxMarkets - Len(p))} :
                      p \in ListsOf(PolyPool, MaxMarkets)}
    /\ ret = Nothing

\* run_bot_engine with poly_markets = fetch_polymarket_markets() and
\* kalshi_markets = fetch_kalshi_markets() as arg says
run_arb_engine ==
    /\ now < MaxPairCycles
    /\ \E tie \in {"up", "down"} :
          LET t == now + 1
              poly_markets == The(arg).poly_markets
              kalshi_markets == The(arg).kalshi_markets
              all_markets == poly_markets \o kalshi_markets
              state == load_state(db_state, BOTS, t)
              all_trades == db_trades
          IN  \E proposed_trades \in
                    {strategy_cross_platform_arb(BOTS[1].params, all_markets, poly_markets,
                        kalshi_markets, StateGet(state, BOTS[1].id, t).bankroll, tie)} :
              \E out \in {ForBots(BOTS, 1,
                                  [state |-> state, new_trades |-> <<>>,
                                   bot_results |-> <<>>, locals |-> <<>>],
                                  <<[raised |-> FALSE, trades |-> proposed_trades]>>,
                                  all_markets, t)} :
              /\ now' = t
              /\ db_state' = Some(out.state)
              /\ db_trades' = SaveTrades(all_trades, out.new_trades)
              /\ result' = Some([lastUpdated |-> t,
                                 totalMarkets |-> Len(all_markets),
                                 bots |-> out.bot_results,
                                 recentTrades |-> RecentTrades(out.new_trades,
                                     SaveTrades(all_trades, out.new_trades)),
                                 newTradesCount |-> Len(out.new_trades)])
              /\ cyc' = Some(out.locals)
    /\ UNCHANGED <<BOTS, arg, ret, invocations>>

SpecArb == InitArb /\ [][run_arb_engine]_vars

(***************************************************************************)
(* Each of the six agents alone in the engine, from the empty store, with   *)
(* the proposals its own strategy returns for the markets of the cycle.     *)
(***************************************************************************)
MaxSixCycles == 2     \* invocations per behaviour of one agent

\* the entry i of BOTS as the admission loop reads it
Agent(i) ==
    [id |-> SixBots[i].id, strategy |-> SixBots[i].strategy,
     max_positions |-> SixBots[i].params.max_positions, params |-> SixBots[i].params]

\* STRATEGY_MAP.get(bot["strategy"])(bot, all_markets, poly_markets, kalshi_markets, bot_state)
StrategyFn(bot, markets, poly_markets, kalshi_markets, bankroll, tie) ==
    CASE bot.strategy = "contrarian_value" ->
            strategy_contrarian_value(bot.params, markets, poly_markets, kalshi_markets, bankroll, tie)
      [] bot.strategy = "cross_platform_arb" ->
            strategy_cross_platform_arb(bot.params, markets, poly_markets, kalshi_markets, bankroll, tie)
      [] bot.strategy = "momentum_narrative" ->
            strategy_momentum_narrative(bot.params, markets, poly_markets, kalshi_markets, bankroll, tie)
      [] bot.strategy = "statistical_value" ->
            strategy_statistical_value(bot.params, markets, poly_markets, kalshi_markets, bankroll, tie)
      [] bot.strategy = "high_conviction" ->
            strategy_high_conviction(bot.params, markets, poly_markets, kalshi_markets, bankroll, tie)
      [] bot.strategy = "tail_risk" ->
            strategy_tail_risk(bot.params, markets, poly_markets, kalshi_markets, bankroll, tie)

\* six titles with six different normalized titles; the first n of them
\* listed as open markets of a venue at one YES price
SixTitles ==
    <<Title.FedMarch, Title.fedmarch, Title.Recession, Title.OpenAI, Title.Rain, Title.Khamenei>>

Listing(platform, n, yes_pct) ==
    [i \in 1..n |-> Mkt(platform, SixTitles[i], RInt(yes_pct), Some(30), FALSE)]

\* what the two fetches of one cycle may return
SixUniverses ==
    {[poly_markets |-> Listing("Polymarket", n, 50),
      kalshi_markets |-> Listing("Kalshi", n, yes_pct)] :
        n \in {0, 2, 4, Len(SixTitles)}, yes_pct \in {10, 50}}

InitSix ==
    /\ BOTS \in {<<Agent(i)>> : i \in 1..Len(SixBots)}
    /\ db_state = Nothing
    /\ db_trades = <<>>
    /\ now = 0
    /\ result = Nothing
    /\ cyc = Nothing
    /\ invocations = <<>>
    /\ arg = Nothing
    /\ ret = Nothing

\* run_bot_engine with the agent's own strategy_fn
run_six_engine ==
    /\ now < MaxSixCycles
    /\ \E u \in SixUniverses :
       \E tie \in {"up", "down"} :
          LET t == now + 1
              all_markets == u.poly_markets \o u.kalshi_markets
              state == load_state(db_state, BOTS, t)
              all_trades == db_trades
          IN  \E proposed_trades \in
                    {StrategyFn(BOTS[1], all_markets, u.poly_markets, u.kalshi_markets,
                                StateGet(state, BOTS[1].id, t).bankroll, tie)} :
              \E out \in {ForBots(BOTS, 1,
                                  [state |-> state, new_trades |-> <<>>,
                                   bot_results |-> <<>>, locals |-> <<>>],
                                  <<[raised |-> FALSE, trades |-> proposed_trades]>>,
                                  all_markets, t)} :
              /\ now' = t
              /\ db_state' = Some(out.state)
              /\ db_trades' = SaveTrades(all_trades, out.new_trades)
              /\ result' = Some([lastUpdated |-> t,
                                 totalMarkets |-> Len(all_markets),
                                 bots |-> out.bot_results,
                                 recentTrades |-> RecentTrades(out.new_trades,
                                     SaveTrades(all_trades, out.new_trades)),
                                 newTradesCount |-> Len(out.new_trades)])
              /\ cyc' = Some(out.locals)
    /\ UNCHANGED <<BOTS, arg, ret, invocations>>

SpecSix == InitSix /\ [][run_six_engine]_vars

(***************************************************************************)
(* Claims                                                                   *)
(***************************************************************************)
\* ---- helpers of the claims ----
\* the trade records of the last invocation, in the order they were created
NewTradesOf(res) == Concat([i \in 1..Len(res.bots) |-> res.bots[i].new_trades])

\* the agent states as the next invocation loads them
Loaded == load_state(db_state, BOTS, now)

Ran == result # Nothing

\* C1: after the admission loop no two open positions of an agent have the
\* same normalize_title(market) key, whatever the proposals were.
C1_NoDuplicateKeys ==
    Ran => \A b \in DOMAIN Loaded :
             LET ps == Loaded[b].positions
             IN  \A i, j \in 1..Len(ps) :
                    i < j => normalize_title(ps[i].market) # normalize_title(ps[j].market)

\* C2: the number of open positions of an agent never exceeds its
\* max_positions.
C2_PositionCap ==
    \A i \in 1..Len(BOTS) :
        Len(Loaded[BOTS[i].id].positions) <= BOTS[i].max_positions

\* C2 witness: an agent holds exactly max_positions positions after a cycle in
\* which it was offered a proposal for a market it did not hold
C2_Witness ==
    /\ Ran
    /\ \E i \in 1..Len(BOTS) :
          /\ Len(Loaded[BOTS[i].id].positions) = BOTS[i].max_positions
          /\ The(cyc)[BOTS[i].id].unmatched > 0

\* C3: the number of proposals admitted in a cycle is
\* min(#proposals whose key matches no open position,
\*     max_positions - positions open at cycle start).
C3_AdmitUntilCap ==
    Ran => \A i \in 1..Len(BOTS) :
             LET l == The(cyc)[BOTS[i].id]
             IN  Len(The(result).bots[i].new_trades)
                   = Min2(l.unmatched, BOTS[i].max_positions - l.start_positions)

\* C4: the reported total equity is bankroll + sum of open stakes + the
\* unrealized P&L of the cycle (rounded to cents), and it is the value
\* appended to the equity curve.
C4_EquityIdentity ==
    Ran => \A i \in 1..Len(BOTS) :
             LET r == The(result).bots[i]
                 st == Loaded[BOTS[i].id]
                 upnl == The(cyc)[BOTS[i].id].unrealized_pnl
                 total == RAdd(Cents(st.bankroll + SumStakes(st.positions)), upnl)
             IN  /\ ~IsHalfCent(total)
                 /\ r.total_equity = Round2(total)
                 /\ st.equity_curve[Len(st.equity_curve)]
                      = [time |-> now, value |-> r.total_equity]

\* C4 witness: a cycle ends with an open position whose price has moved and a
\* non-zero unrealized P&L
C4_Witness ==
    /\ Ran
    /\ \E i \in 1..Len(BOTS) :
          LET st == Loaded[BOTS[i].id]
          IN  /\ \E k \in 1..Len(st.positions) :
                    st.positions[k].current_price # Pool_price(st.positions[k].market)
              /\ The(cyc)[BOTS[i].id].unrealized_pnl # RInt(0)

\* C5: each cycle appends exactly one sample to an agent's equity curve and
\* keeps the most recent 168 samples, in time order.
C5_Step ==
    now' # now =>
      \A i \in 1..Len(BOTS) :
        LET old == load_state(db_state, BOTS, now')[BOTS[i].id].equity_curve
            new == The(db_state')[BOTS[i].id].equity_curve
            sample == [time |-> now', value |-> The(result').bots[i].total_equity]
        IN  new = LastN(Append(old, sample), EQUITY_CURVE_CAP)

C5_Bounded ==
    \A b \in DOMAIN Loaded :
        LET c == Loaded[b].equity_curve
        IN  /\ Len(c) <= EQUITY_CURVE_CAP
            /\ \A j \in 1..(Len(c) - 1) : c[j].time <= c[j + 1].time

C5_EquityCurve == []C5_Bounded /\ [][C5_Step]_vars

\* C5 witness: the curve is full and its oldest sample has been evicted
C5_Witness ==
    /\ Ran
    /\ \E b \in DOMAIN Loaded :
          /\ Len(Loaded[b].equity_curve) = EQUITY_CURVE_CAP
          /\ Loaded[b].equity_curve[1] # AgedCurve[1]
             \/ Loaded[b].equity_curve[2] # AgedCurve[2]

\* C6: the saved trade log is the previous log followed by the cycle's new
\* trade records, truncated to the 500 most recent entries.
C6_Step ==
    now' # now =>
      db_trades' = LastN(db_trades \o NewTradesOf(The(result')), TRADE_LOG_CAP)

C6_TradeLog == [](Len(db_trades) <= TRADE_LOG_CAP) /\ [][C6_Step]_vars

\* C6 witness: a cycle added records to a log that was truncated to the cap
C6_Witness ==
    /\ Ran
    /\ Len(db_trades) = TRADE_LOG_CAP
    /\ The(result).newTradesCount > 0
    /\ db_trades[1] # AgedLog[1]

\* ---- kelly_size ----
KellyCalled == arg # Nothing /\ ret # Nothing

\* strictly between 0.01 and 0.99
InOpenRange(x) == RGt(x, R(1, 100)) /\ RLt(x, R(99, 100))

\* min(0.15 * bankroll, 800), in dollars
StakeCap(bankroll) == RMin(RMul(R(15, 100), bankroll), RInt(800))

\* the full-Kelly fractions in closed form: (p - m) / (1 - m) and (m - p) / m
ClosedFYes(p, m) == RDiv(RSub(p, m), RSub(RInt(1), m))

ClosedFNo(p, m) == RDiv(RSub(m, p), m)

\* C7: for p and m strictly between 0.01 and 0.99 the stake is >= 0 and
\* <= min(0.15 * bankroll, 800) and the direction is BUY_YES, BUY_NO or none;
\* otherwise the result is stake 0 with no direction.
C7_StakeBounds ==
    KellyCalled =>
      LET a == The(arg)
          r == The(ret).out
      IN  IF InOpenRange(a.estimated_prob) /\ InOpenRange(a.market_price)
          THEN /\ r.bet >= 0
               /\ RLe(Cents(r.bet), StakeCap(a.bankroll))
               /\ r.dir \in {BUY_YES, BUY_NO, None}
          ELSE r = [bet |-> 0, dir |-> None]

\* C8: kelly_size returns BUY_YES when the computed f_yes > 0 and
\* f_yes >= f_no, BUY_NO when that does not hold and f_no > 0, and stake 0
\* with no direction when neither holds.
C8_Decision ==
    KellyCalled /\ InOpenRange(The(arg).estimated_prob) /\ InOpenRange(The(arg).market_price) =>
      LET a == The(arg)
          r == The(ret).out
          fp == The(ret).fp
          f_yes == ClosedFYes(a.estimated_prob, a.market_price)
          f_no == ClosedFNo(a.estimated_prob, a.market_price)
          yes == FSign(f_yes, fp.e_yes) > 0 /\ FGe(f_yes, fp.e_yes, f_no, fp.e_no)
          no == ~yes /\ FSign(f_no, fp.e_no) > 0
      IN  /\ yes => r.dir = BUY_YES
          /\ no => r.dir = BUY_NO
          /\ ~yes /\ ~no => r = [bet |-> 0, dir |-> None]

\* C8 witness: a call with f_no > 0 > f_yes that returned BUY_NO with a stake
C8_Witness ==
    /\ KellyCalled
    /\ RLt(The(arg).estimated_prob, The(arg).market_price)
    /\ The(ret).out.dir = BUY_NO
    /\ The(ret).out.bet > 0

\* the stake of a call that trades: bankroll * f * k clamped to the cap, less
\* the 1% fee, rounded to cents
StakeFormula ==
    KellyCalled /\ The(ret).out.dir # None =>
      LET a == The(arg)
          r == The(ret).out
          f == IF r.dir = BUY_YES THEN ClosedFYes(a.estimated_prob, a.market_price)
                                  ELSE ClosedFNo(a.estimated_prob, a.market_price)
          raw == RMul(RMul(a.bankroll, f), a.kelly_fraction)
          clamped == RMin(raw, StakeCap(a.bankroll))
      IN  r.bet = Round2T(RMul(clamped, R(99, 100)), The(ret).fp.tie)

IsExample1 ==
    /\ arg # Nothing
    /\ The(arg) = [estimated_prob |-> R(55, 100), market_price |-> R(40, 100),
                   bankroll |-> RInt(10000), kelly_fraction |-> R(25, 100)]

\* C9 (as stated): the stake is bankroll * f * k clamped to
\* min(15% of bankroll, 800) less the 1% fee, and for p = 0.55, m = 0.40,
\* bankroll = 10000, k = 0.25 the result is stake 792.0, BUY_YES.
C9_Example792 ==
    /\ StakeFormula
    /\ IsExample1 /\ ret # Nothing => The(ret).out = [bet |-> 79200, dir |-> BUY_YES]

\* C9 (amended): the stake is bankroll * f * k clamped to
\* min(15% of bankroll, 800) less the 1% fee, rounded to cents, and for
\* p = 0.55, m = 0.40, bankroll = 10000, k = 0.25 (f_yes = 0.25, raw stake 625,
\* below the cap) the result is stake 618.75, BUY_YES.
C9_Example61875 ==
    /\ StakeFormula
    /\ IsExample1 /\ ret # Nothing => The(ret).out = [bet |-> 61875, dir |-> BUY_YES]

\* C9 witness: the example call has returned with a stake
C9_Witness ==
    /\ IsExample1
    /\ ret # Nothing
    /\ The(ret).out.bet > 0

\* C10: title normalization is idempotent:
\* normalize_title(normalize_title(s)) = normalize_title(s) for every title s.
C10_Idempotent ==
    ret # Nothing => normalize_title(The(ret)) = The(ret)

\* ---- Kalshi price parsing ----
Returned(fn) == arg # Nothing /\ ret # Nothing /\ The(ret).fn = fn

\* a price field holding a number other than zero
NonZero(f) == f # Nothing /\ The(f) # RInt(0)

\* the field read in cents: a value in (0, 1] is a dollar amount
AsCents(f) ==
    IF RGt(The(f), RInt(0)) /\ RLe(The(f), RInt(1)) THEN RMul(The(f), RInt(100)) ELSE The(f)

\* the candidates of the fallback chain of record m, in order; <<>> where the
\* candidate does not apply
Candidates(m) ==
    << IF NonZero(m.yes_price) THEN <<AsCents(m.yes_price)>> ELSE <<>>,
       IF NonZero(m.yes_bid) /\ NonZero(m.yes_ask)
          THEN <<RDiv(RAdd(AsCents(m.yes_bid), AsCents(m.yes_ask)), RInt(2))>> ELSE <<>>,
       IF ~NonZero(m.yes_bid) /\ NonZero(m.yes_ask) THEN <<AsCents(m.yes_ask)>> ELSE <<>>,
       IF NonZero(m.yes_bid) /\ ~NonZero(m.yes_ask) THEN <<AsCents(m.yes_bid)>> ELSE <<>>,
       IF NonZero(m.last_price) THEN <<AsCents(m.last_price)>> ELSE <<>>,
       IF NonZero(m.yes_price_dollar) THEN <<RMul(The(m.yes_price_dollar), RInt(100))>> ELSE <<>>,
       IF NonZero(m.last_price_dollar) THEN <<RMul(The(m.last_price_dollar), RInt(100))>> ELSE <<>> >>

\* the first candidate that is a price in (0, 100], or <<>>
FirstValid(cands) ==
    LET valid == SelectSeq(cands, LAMBDA c : c # <<>> /\ RGt(c[1], RInt(0)) /\ RLe(c[1], RInt(100)))
    IN  IF valid = <<>> THEN <<>> ELSE valid[1]

\* C11: bots.fetch_kalshi_markets admits a record with no yes_price, yes_bid 0
\* or missing and yes_ask in (0, 100], with the ask as its price.
C11_OneSidedBookAdmitted ==
    Returned("bots.fetch_kalshi_markets") =>
      \A i \in 1..Len(The(arg)) :
        LET m == The(arg)[i]
        IN  /\ m.yes_price = Nothing
            /\ ~NonZero(m.yes_bid)
            /\ m.yes_ask # Nothing
            /\ RGt(The(m.yes_ask), RInt(0)) /\ RLe(The(m.yes_ask), RInt(100))
            => \E j \in 1..Len(The(ret).out) :
                  /\ The(ret).out[j].ticker = m.ticker
                  /\ The(ret).out[j].yes_pct = The(m.yes_ask)

\* C12: scanner.extract_kalshi_yes_pct returns the first valid candidate of the
\* chain yes_price, midpoint, ask alone, bid alone, last_price, dollar fields,
\* and None when no field yields a price.
C12_FirstValidCandidate ==
    Returned("extract_kalshi_yes_pct") =>
      The(ret).out = FirstValid(Candidates(The(ret).market))

\* C13: every market admitted by either fetch_kalshi_markets has a stored yes
\* probability > 0 and <= 100.
C13_StoredInRange ==
    /\ Returned("scanner.fetch_kalshi_markets") =>
         \A j \in 1..Len(The(ret).out) :
            /\ RGt(The(ret).out[j].yes_price, RInt(0))
            /\ RLe(The(ret).out[j].yes_price, RInt(100))
    /\ Returned("bots.fetch_kalshi_markets") =>
         \A j \in 1..Len(The(ret).out) :
            /\ RGt(The(ret).out[j].yes_pct, RInt(0))
            /\ RLe(The(ret).out[j].yes_pct, RInt(100))

\* ---- admission: trade ids and entry prices ----
\* C19: every trade record gets a trade id different from the id of every
\* other trade record, also of one created for the same agent in the same
\* cycle from a proposal with the same market title.
C19_UniqueTradeIds ==
    \A i, j \in 1..Len(db_trades) :
        i < j => db_trades[i].id # db_trades[j].id

\* C20: the recorded entry price of an admitted proposal is >= the quoted
\* market price for BUY_YES, <= it for BUY_NO and equal to it for ARB, and the
\* trade record and the position store the same entry price.
C20_SlippageAgainstAgent ==
    arg # Nothing /\ ret # Nothing =>
      LET quoted == The(arg).market_price
          recs == The(ret).executed_trades
          poss == The(ret).bot_state.positions
      IN  /\ Len(recs) = 1 /\ Len(poss) = 1
          /\ recs[1].direction = BUY_YES => RGe(recs[1].entry_price, quoted)
          /\ recs[1].direction = BUY_NO => RLe(recs[1].entry_price, quoted)
          /\ recs[1].direction = ARB => recs[1].entry_price = quoted
          /\ poss[1].entry_price = recs[1].entry_price

\* C20 witness: a BUY_YES proposal at the top of the band was admitted above
\* the quote, without reaching the 99 cap
C20_Witness ==
    /\ arg # Nothing /\ ret # Nothing
    /\ The(arg).direction = BUY_YES
    /\ The(arg).market_price = RInt(MAX_TRADEABLE_PRICE)
    /\ RGt(The(ret).executed_trades[1].entry_price, The(arg).market_price)
    /\ RLt(The(ret).executed_trades[1].entry_price, RInt(99))

\* ---- a strategy that raises ----
\* agent j's pass of the loop from the stored state, had its strategy done
\* what outcome says
PassOf(j, outcome, all_markets) ==
    ProcessBot(BOTS[j], load_state(db_state, BOTS, now + 1), outcome, all_markets, now + 1)

ReturnedEmpty == [raised |-> FALSE, trades |-> <<>>]

\* the run that just finished left agent j as the pass r does
EndsAs(j, r) ==
    /\ The(db_state')[BOTS[j].id] = r.bot_state
    /\ The(result').bots[j] = r.bot_result
    /\ SelectSeq(db_trades', LAMBDA rec : rec.timestamp = now' /\ rec.bot_id = BOTS[j].id)
          = r.executed_trades

\* agent i's strategy raised in the run that just finished
RaisedIn(i) == cyc' # Nothing /\ The(cyc')[BOTS[i].id].raised

C17_Step ==
    \A i \in 1..Len(BOTS) :
        RaisedIn(i) =>
          LET id == BOTS[i].id
              pre == StateGet(load_state(db_state, BOTS, now'), id, now')
              post == The(db_state')[id]
              res == The(result')
          IN  /\ result' # Nothing
              /\ The(cyc')[id].proposed = 0
              /\ res.bots[i].new_trades = <<>>
              /\ \A k \in 1..Len(db_trades') :
                     db_trades'[k].timestamp = now' => db_trades'[k].bot_id # id
              /\ \E u \in Universes : post.positions = MarkToMarket(pre.positions, u)
              /\ post.equity_curve[Len(post.equity_curve)].time = now'
              /\ post.equity_curve[Len(post.equity_curve)].value = res.bots[i].total_equity
              /\ \E u \in Universes :
                    /\ EndsAs(i, PassOf(i, ReturnedEmpty, u))
                    /\ \A j \in 1..Len(BOTS) \ {i} :
                          \E o \in StrategyOutcomes(BOTS) : EndsAs(j, PassOf(j, o, u))

\* C17: when an agent's strategy raises, the agent gets zero proposals and no
\* new trade in that run, its open positions are still marked to market and
\* its equity sample is still appended, every agent ends the run as in a run
\* where that strategy returned the empty list, and run_bot_engine returns.
C17_RaiseContained == [][C17_Step]_vars

\* a run of two agents in which Pepper's strategy raised, Pepper's open
\* position was re-marked, and Ollie admitted a trade
C17_Witness ==
    /\ Ran /\ Len(BOTS) = 2
    /\ The(cyc)["pepper"].raised
    /\ Len(The(db_state)["pepper"].positions) = 1
    /\ The(db_state)["pepper"].positions[1].current_price = RInt(50)
    /\ Len(The(result).bots[2].new_trades) = 1

\* ---- strategies ----
\* the markets handed to the strategy call
OfferedMarkets ==
    LET all == The(arg).poly_markets \o The(arg).kalshi_markets
    IN  {all[i] : i \in 1..Len(all)}

\* C18: a strategy returns at most max_positions proposals, in order of
\* non-increasing edge_pp, each for an offered market whose yes price lies in
\* [5, 95] and whose title contains no deny-listed esports keyword.
C18_StrategyContract ==
    arg # Nothing /\ ret # Nothing =>
      LET out == The(ret)
      IN  /\ Len(out) <= The(arg).bot.params.max_positions
          /\ \A i \in 1..(Len(out) - 1) : RGe(out[i].edge_pp, out[i + 1].edge_pp)
          /\ \A i \in 1..Len(out) :
                \E m \in OfferedMarkets :
                   /\ m.title = out[i].market /\ m.yes_pct = out[i].market_price
                   /\ RGe(m.yes_pct, RInt(5)) /\ RLe(m.yes_pct, RInt(95))
                   /\ ~AnyIn(esport_keywords, StrLower(m.title))

\* a call with max_positions 1 that was offered, in this order, a market with
\* edge 20, one with edge 26 and an esports market with edge 30, and returned
\* the one with edge 26 alone
C18_Witness ==
    /\ arg # Nothing /\ ret # Nothing
    /\ The(arg).bot.params.max_positions = 1
    /\ Len(The(arg).poly_markets) = 2 /\ Len(The(arg).kalshi_markets) = 1
    /\ The(arg).poly_markets[1].title = Title.Recession
    /\ The(arg).poly_markets[2].title = Title.FedMarch
    /\ The(arg).kalshi_markets[1].title = Title.Thunder
    /\ Len(The(ret)) = 1
    /\ The(ret)[1].market = Title.FedMarch
    /\ The(ret)[1].edge_pp = RInt(26)

\* ---- the cycle record ----
\* the record run_bot_engine returned for agent i in the last run
BotResult(i) == The(result).bots[i]

\* C14: the cycle decision reported for an agent is TRADE exactly when at
\* least one proposal was admitted for it in the cycle and HOLD otherwise, a
\* TRADE cycle reports no hold reason, and the result of run_bot_engine
\* carries latest_cycle for every agent and recentCycles.
C14_CycleDecision ==
    Ran =>
      /\ "recentCycles" \in DOMAIN The(result)
      /\ Len(The(result).recentCycles) >= 1
      /\ \A i \in 1..Len(BOTS) :
            /\ "latest_cycle" \in DOMAIN BotResult(i)
            /\ LET cycle == BotResult(i).latest_cycle
                   admitted == BotResult(i).new_trades # <<>>
               IN  /\ cycle.decision \in {"TRADE", "HOLD"}
                   /\ cycle.decision = "TRADE" <=> admitted
                   /\ cycle.decision = "TRADE" => cycle.top_hold_reasons = <<>>

\* C15: when an agent holds max_positions open positions and its strategy
\* returns at least one proposal, the cycle creates no position and no trade
\* record, and its cycle record is HOLD with AT_MAX_POSITIONS among the hold
\* reasons.
C15_HoldAtCap ==
    \A i \in 1..Len(BOTS) :
        (Ran /\ The(cyc)[BOTS[i].id].start_positions = BOTS[i].max_positions
             /\ The(cyc)[BOTS[i].id].proposed >= 1) =>
          /\ BotResult(i).new_trades = <<>>
          /\ BotResult(i).open_positions = BOTS[i].max_positions
          /\ \A k \in 1..Len(db_trades) :
                 db_trades[k].bot_id = BOTS[i].id => db_trades[k].timestamp < now
          /\ "latest_cycle" \in DOMAIN BotResult(i)
          /\ LET cycle == BotResult(i).latest_cycle
             IN  /\ cycle.decision = "HOLD"
                 /\ \E k \in 1..Len(cycle.top_hold_reasons) :
                        cycle.top_hold_reasons[k].reason = "AT_MAX_POSITIONS"

\* C16: when the arbitrage agent runs in a cycle where one venue's market
\* list is empty, it admits no trade and its cycle record is HOLD with reason
\* DEPENDENCY_DATA_UNAVAILABLE, whatever the other venue's list holds, and
\* that reason is ranked above AT_MAX_POSITIONS and NO_QUALIFYING_EDGE.
C16_DependencyHold ==
    \A i \in 1..Len(BOTS) :
        (/\ Ran /\ arg # Nothing
         /\ BOTS[i].strategy = "cross_platform_arb"
         /\ The(arg).poly_markets = <<>> \/ The(arg).kalshi_markets = <<>>) =>
          /\ The(cyc)[BOTS[i].id].proposed = 0
          /\ BotResult(i).new_trades = <<>>
          /\ \A k \in 1..Len(db_trades) : db_trades[k].bot_id # BOTS[i].id
          /\ "latest_cycle" \in DOMAIN BotResult(i)
          /\ LET cycle == BotResult(i).latest_cycle
                 reasons == cycle.top_hold_reasons
             IN  /\ cycle.decision = "HOLD"
                 /\ \E k \in 1..Len(reasons) :
                        /\ reasons[k].reason = "DEPENDENCY_DATA_UNAVAILABLE"
                        /\ \A j \in 1..Len(reasons) :
                              reasons[j].reason \in {"AT_MAX_POSITIONS", "NO_QUALIFYING_EDGE"}
                                  => k < j

\* ---- mark to market ----
\* the snapshots of the universe that the claim's reading matches with the
\* position: same normalize_title key, at most MAX_MARK_JUMP points away
NearSnapshots(pos, all_markets) ==
    {j \in 1..Len(all_markets) :
        /\ MarketKey[all_markets[j].title] = MarketKey[pos.market]
        /\ RLe(RAbs(RSub(all_markets[j].yes_pct, pos.current_price)), RInt(MAX_MARK_JUMP))}

\* C21: a position's mark becomes the price of a snapshot whose normalized
\* title equals the position's normalized market key and whose price is at
\* most 15 points from the last mark; without such a snapshot the mark is
\* unchanged.
C21_MarkByNormalizedKey ==
    arg # Nothing /\ ret # Nothing /\ "pos" \in DOMAIN The(arg) =>
      LET pos == The(arg).pos
          all_markets == The(arg).all_markets
          near == NearSnapshots(pos, all_markets)
      IN  IF near # {}
          THEN \E j \in near : The(ret).current_price = all_markets[j].yes_pct
          ELSE The(ret).current_price = pos.current_price

\* C21 as amended: the snapshot is the first one of the universe whose title,
\* stripped and lower-cased, equals the position's; the mark becomes its price
\* when that price is at most 15 points from the last mark and is unchanged in
\* every other case, and no other field of the position changes.
C21_MarkByExactTitle ==
    arg # Nothing /\ ret # Nothing /\ "pos" \in DOMAIN The(arg) =>
      LET pos == The(arg).pos
          all_markets == The(arg).all_markets
          same == {j \in 1..Len(all_markets) :
                      StrLower(StrStrip(all_markets[j].title)) = StrLower(StrStrip(pos.market))}
          first == CHOOSE j \in same : \A k \in same : j <= k
          near(j) == RLe(RAbs(RSub(all_markets[j].yes_pct, pos.current_price)), RInt(15))
      IN  /\ The(ret) = [pos EXCEPT !.current_price = The(ret).current_price]
          /\ The(ret).current_price =
                IF same # {} /\ near(first) THEN all_markets[first].yes_pct
                ELSE pos.current_price

\* a position on "fed" last marked at 50 met " FED" at 66 and then "Fed?" at
\* 40: the first equal title is 16 points away, so the mark stayed at 50
C21_Witness ==
    /\ arg # Nothing /\ ret # Nothing /\ "pos" \in DOMAIN The(arg)
    /\ The(arg).pos.market = T_fed /\ The(arg).pos.current_price = RInt(50)
    /\ Len(The(arg).all_markets) = 2
    /\ The(arg).all_markets[1].title = T_FED /\ The(arg).all_markets[1].yes_pct = RInt(66)
    /\ The(arg).all_markets[2].title = T_FedQ /\ The(arg).all_markets[2].yes_pct = RInt(40)
    /\ The(ret).current_price = RInt(50)

\* ---- unrealized P&L of ARB positions ----
\* what the claim says a position contributes: for ARB the net spread of the
\* arb_detail its trade was opened with, times the stake
ClaimedPnl(pos) ==
    IF pos.direction = ARB
    THEN LET k == CHOOSE k \in 1..Len(db_trades) : db_trades[k].id = pos.trade_id
             spread == The(db_trades[k].arb_detail).spread
         IN  RMul(Cents(pos.bet_amount),
                  RMax(RSub(R(spread, 100), R(2 * FEES_PCT, 100)), RInt(0)))
    ELSE PositionPnl(pos)

RECURSIVE ClaimedUnrealized(_)
ClaimedUnrealized(positions) ==
    IF positions = <<>> THEN RInt(0)
    ELSE RAdd(ClaimedPnl(Head(positions)), ClaimedUnrealized(Tail(positions)))

\* C22: an open ARB position contributes stake * max(spread/100 - 2*fee, 0)
\* to the agent's unrealized P&L in the cycle it is opened and in every later
\* cycle, whatever the later prices; with a spread above 2 points that is a
\* strictly positive amount.
C22_ArbPnl ==
    Ran => \A i \in 1..Len(BOTS) :
             LET positions == Loaded[BOTS[i].id].positions
                 unrealized_pnl == The(cyc)[BOTS[i].id].unrealized_pnl
             IN  /\ unrealized_pnl = ClaimedUnrealized(positions)
                 /\ (Len(positions) = 1 /\ positions[1].direction = ARB)
                        => RGt(unrealized_pnl, RInt(0))

\* ---- peak equity ----
C23_Step ==
    now' # now =>
      \A i \in 1..Len(BOTS) :
        LET id == BOTS[i].id
            old == StateGet(load_state(db_state, BOTS, now'), id, now').peak_bankroll
            new == The(db_state')[id].peak_bankroll
            total_equity == The(cyc')[id].current_equity
        IN  /\ new = RMax(old, total_equity)
            /\ RGe(new, old)
            /\ RGe(new, total_equity)
            /\ The(result').bots[i].drawdown_pct >= 0
            /\ The(result').bots[i].peak_bankroll >= The(result').bots[i].total_equity

\* C23: after every cycle peak_bankroll is the larger of its previous value
\* and the cycle's total equity, so it never decreases and is at least the
\* current total equity, and the reported drawdown percentage is >= 0.
C23_PeakRunningMax == [][C23_Step]_vars

\* a peak above the initial bankroll was kept through a cycle that ended with
\* a lower total equity and a positive drawdown
C23_Witness ==
    /\ Ran
    /\ \E i \in 1..Len(BOTS) :
          /\ RGt(Loaded[BOTS[i].id].peak_bankroll, RInt(INITIAL_BANKROLL))
          /\ RLt(The(cyc)[BOTS[i].id].current_equity, Loaded[BOTS[i].id].peak_bankroll)
          /\ The(result).bots[i].drawdown_pct > 0

\* ---- positions are only appended and re-marked ----
C24_Step ==
    now' # now =>
      \A i \in 1..Len(BOTS) :
        LET id == BOTS[i].id
            old == StateGet(load_state(db_state, BOTS, now'), id, now').positions
            new == The(db_state')[id].positions
        IN  /\ Len(new) >= Len(old)
            /\ \A k \in 1..Len(old) :
                  /\ new[k].trade_id = old[k].trade_id
                  /\ new[k].market = old[k].market
                  /\ new[k].direction = old[k].direction
                  /\ new[k].entry_price = old[k].entry_price
                  /\ new[k].bet_amount = old[k].bet_amount
                  /\ new[k].timestamp = old[k].timestamp

ArbCalled ==
    /\ arg # Nothing /\ ret # Nothing /\ "bot" \in DOMAIN The(arg)
    /\ The(arg).bot.strategy = "cross_platform_arb"

\* the absolute price gap of a Polymarket and a Kalshi market
Gap(pm, km) == RAbs(RSub(pm.yes_pct, km.yes_pct))

\* bankroll * (gap/100) * kelly_fraction, capped at 20% of the bankroll
\* (dollars; the strategy is called with the initial bankroll)
ArbStake(pm, km, params) ==
    RMin(RMul(RMul(RInt(INITIAL_BANKROLL), RDiv(Gap(pm, km), RInt(100))),
              params.kelly_fraction),
         RMul(RInt(INITIAL_BANKROLL), R(20, 100)))

\* the pair may be proposed: both markets open for trading, overlap and gap
\* large enough, stake at least 10
Qualifies(pm, km, params) ==
    /\ ~pm.closed /\ pm.active
    /\ \A m \in {pm, km} :
          /\ RGe(m.yes_pct, RInt(MIN_TRADEABLE_PRICE))
          /\ RLe(m.yes_pct, RInt(MAX_TRADEABLE_PRICE))
          /\ ~AnyIn(esport_keywords, StrLower(m.title))
    /\ RGe(Overlap[<<pm.title, km.title>>], R(1, 2))
    /\ RGe(Gap(pm, km), RInt(params.min_spread))
    /\ RGe(ArbStake(pm, km, params), RInt(10))

\* C25: the arbitrage strategy proposes a pair only when the keyword overlap
\* of the normalized titles is >= 0.5 and the absolute gap is >= min_spread,
\* sizes it at bankroll * (gap/100) * kelly_fraction capped at 20% of the
\* bankroll, and returns at most one proposal per normalized market key, the
\* one with the highest edge.
C25_ArbPairs ==
    ArbCalled =>
      LET poly == The(arg).poly_markets
          kalshi == The(arg).kalshi_markets
          params == The(arg).bot.params
          out == The(ret)
      IN  /\ \A k \in 1..Len(out) :
                \E i \in 1..Len(poly), j \in 1..Len(kalshi) :
                   /\ out[k].market = poly[i].title
                   /\ out[k].market_price = poly[i].yes_pct
                   /\ out[k].estimated_prob = kalshi[j].yes_pct
                   /\ RGe(keyword_overlap(normalize_title(poly[i].title),
                                          normalize_title(kalshi[j].title)), R(1, 2))
                   /\ RGe(Gap(poly[i], kalshi[j]), RInt(params.min_spread))
                   /\ out[k].edge_pp \in {Round1T(Gap(poly[i], kalshi[j]), tie) :
                                              tie \in {"up", "down"}}
                   /\ out[k].bet_amount \in
                         {Round2T(ArbStake(poly[i], kalshi[j], params), tie) :
                             tie \in {"up", "down"}}
          /\ \A k, l \in 1..Len(out) :
                k < l => normalize_title(out[k].market) # normalize_title(out[l].market)
          /\ \A k \in 1..Len(out) :
                \A i \in 1..Len(poly), j \in 1..Len(kalshi) :
                   (/\ NormTitle[poly[i].title] = NormTitle[out[k].market]
                    /\ Qualifies(poly[i], kalshi[j], params))
                      => RLe(Gap(poly[i], kalshi[j]), out[k].edge_pp)

\* "Fed hold in March?" at 70 was offered with two Kalshi markets that match
\* it, at 80 and at 25: one proposal came back, for the gap of 45, with the
\* stake capped at 20% of the bankroll
C25_Witness ==
    /\ ArbCalled
    /\ Len(The(arg).poly_markets) = 1 /\ Len(The(arg).kalshi_markets) = 2
    /\ The(arg).poly_markets[1].title = Title.FedMarch
    /\ The(arg).kalshi_markets[1].yes_pct = RInt(80)
    /\ The(arg).kalshi_markets[2].yes_pct = RInt(25)
    /\ Len(The(ret)) = 1
    /\ The(ret)[1].edge_pp = RInt(45)
    /\ The(ret)[1].bet_amount = 20 * INITIAL_BANKROLL

(***************************************************************************)
(* C26: the engine takes no lock around its loads and saves.  When two      *)
(* invocations overlap so that both load before either saves, the persisted *)
(* agent state and the persisted trade log are those of the last writer of  *)
(* each, and the positions and trade records only the other invocation      *)
(* admitted are lost; an invocation that starts after another has returned  *)
(* loads every position and trade record that one admitted.                 *)
(***************************************************************************)
\* the ids of the trade records request r admitted
AdmittedIds(r) ==
    {invocations[r].new_trades[i].id : i \in 1..Len(invocations[r].new_trades)}

\* the ids in a trade log, and the trade ids of the positions in a state blob
LogIds(log) == {log[i].id : i \in 1..Len(log)}

HeldIds(state) ==
    UNION {{state[b].positions[k].trade_id : k \in 1..Len(state[b].positions)} :
           b \in DOMAIN state}

\* both requests loaded the state and the log before either saved anything
BothLoadedFirst == \A r \in Requests : invocations[r].seen_saves = 0

AllReturned == \A r \in Requests : invocations[r].pc = "done"

C27_BankrollNeverNegative ==
    \A b \in DOMAIN Loaded : Loaded[b].bankroll >= 0

\* the arbitrage agent put four stakes of 20% of its starting bankroll into
\* one cycle: the last one is half the cash that was left
C27_Witness ==
    /\ Ran
    /\ now = 1
    /\ BotResult(1).id = "mako"
    /\ Len(BotResult(1).new_trades) = 4
    /\ \A i \in 1..4 : BotResult(1).new_trades[i].bet_amount = 20 * INITIAL_BANKROLL
    /\ Loaded["mako"].bankroll = 20 * INITIAL_BANKROLL

(***************************************************************************)
(* C28: admission conserves cash.  For an agent started from the default    *)
(* state, after every cycle its bankroll plus the stakes of its open        *)
(* positions is the initial bankroll of 10000.                              *)
(***************************************************************************)
C28_CashConserved ==
    \A b \in DOMAIN Loaded :
        Loaded[b].bankroll + SumStakes(Loaded[b].positions) = 100 * INITIAL_BANKROLL

\* an agent that holds two positions after its second cycle
C28_Witness ==
    /\ Ran
    /\ now = 2
    /\ \E b \in DOMAIN Loaded :
          /\ Len(Loaded[b].positions) >= 2
          /\ Loaded[b].bankroll < 100 * INITIAL_BANKROLL
          /\ Loaded[b].positions[1].timestamp # Loaded[b].positions[2].timestamp

(***************************************************************************)
(* C29: for an agent started from the default state, after every cycle      *)
(* total_trades is the number of open positions; the trade records of a     *)
(* cycle are, in order, the positions appended in it (same id, entry price  *)
(* and stake, status OPEN); total_trades never exceeds max_positions; and   *)
(* an agent that holds max_positions positions admits nothing any more.     *)
(***************************************************************************)
C29_Step ==
    now' # now =>
      \A i \in 1..Len(BOTS) :
        LET id == BOTS[i].id
            old == StateGet(load_state(db_state, BOTS, now'), id, now')
            new == The(db_state')[id]
            new_trades == The(result').bots[i].new_trades
            n == Len(old.positions)
        IN  /\ new.total_trades = Len(new.positions)
            /\ Len(new.positions) = n + Len(new_trades)
            /\ \A k \in 1..Len(new_trades) :
                  /\ new.positions[n + k].trade_id = new_trades[k].id
                  /\ new.positions[n + k].entry_price = new_trades[k].entry_price
                  /\ new.positions[n + k].bet_amount = new_trades[k].bet_amount
                  /\ new_trades[k].status = "OPEN"
            /\ new.total_trades <= BOTS[i].max_positions
            /\ n >= BOTS[i].max_positions => new_trades = <<>>

C29_TradesArePositions == [][C29_Step]_vars

\* an agent that held max_positions positions went through a cycle whose
\* strategy proposed a market it does not hold, and admitted nothing
C29_Witness ==
    /\ Ran
    /\ \E i \in 1..Len(BOTS) :
          LET id == BOTS[i].id
          IN  /\ The(cyc)[id].start_positions = BOTS[i].max_positions
              /\ The(cyc)[id].unmatched > 0
              /\ BotResult(i).new_trades = <<>>
              /\ Loaded[id].total_trades = BOTS[i].max_positions

(***************************************************************************)
(* C30: the recentTrades list of the returned dict holds at most 50 trade   *)
(* records, newest first, and no record twice: a trade admitted in the      *)
(* current cycle is in it exactly once.                                     *)
(***************************************************************************)
\* the number of entries of the list that are the record rec
Occurrences(list, rec) == Cardinality({k \in 1..Len(list) : list[k] = rec})

C30_RecentTrades ==
    Ran =>
      LET recent == The(result).recentTrades
          new_trades == NewTradesOf(The(result))
      IN  /\ Len(recent) <= RECENT_TRADES
          /\ \A k \in 1..Len(recent) - 1 : recent[k].timestamp >= recent[k + 1].timestamp
          /\ \A j, k \in 1..Len(recent) : recent[j].id = recent[k].id => j = k
          /\ \A k \in 1..Len(new_trades) : Occurrences(recent, new_trades[k]) = 1

====
